---- MODULE Spec2Model ----
(***************************************************************************)
(* POSIX wrapper for FatFS (posix/posix.c): the descriptor table __iob,    *)
(* the stream records and engine file objects it owns, and the entry       *)
(* points open, fopen, close, fclose, read, write, lseek, ftruncate and    *)
(* syncfs.                                                                 *)
(*                                                                         *)
(* Every C function is an operator from a machine state m (a record of the *)
(* program's memory: the table, the heap, the disk, errno and the log of   *)
(* the engine primitives the running call has invoked) to a pair           *)
(* [m |-> machine state after, r |-> return value].  The statements of the *)
(* C function are the LET steps of the operator, in program order, so a    *)
(* later callee's write to errno overwrites an earlier one exactly as in   *)
(* the code.  What the code cannot decide itself (whether safecalloc finds *)
(* memory, which result code the engine reports) is an oracle argument the *)
(* action draws with \E.                                                   *)
(***************************************************************************)
EXTENDS Integers, Sequences, FiniteSets, TLC

VARIABLES iob,    \* __iob[]: fileno -> address of the stream record, or NULL
          mem,    \* the heap: address -> object (free, FILE or FIL)
          disk,   \* the engine's volume: path -> [exists, data]
          errno,  \* POSIX errno
          elog,   \* engine primitives invoked by the last call, in order
          ret,    \* return value of the last call
          call,   \* the last call: its name and arguments
          fault   \* the last call dereferenced a null pointer and trapped

vars == <<iob, mem, disk, errno, elog, ret, call, fault>>

(***************************************************************************)
(* Bounds of the model.                                                    *)
(***************************************************************************)
\* size of __iob[] (MAX_FILES of posix.h), kept small
MAX_FILES == 5
\* number of bytes the volume can hold in one file
DiskCapacity == 2
\* largest size of the file the volume holds at start
MaxInitLen == 1
\* largest byte count passed to read and write
MaxCount == 1
\* number of console devices fdevopen registers
MaxDevices == 1

(***************************************************************************)
(* C constants.                                                            *)
(***************************************************************************)
NULL == 0
EOF == -1
\* what a get operation returns for end of file and for an error: two kinds
\* of negative result, end of file being the EOF value fatfs_getc returns
FDEV_EOF == -1
FDEV_ERR == -2

\* errno values: the index of the message in sys_errlist[]
EPERM == 1
ENOENT == 2
EIO == 5
ENXIO == 6
EBADF == 9
ENOMEM == 12
EACCES == 13
EBUSY == 16
EINVAL == 22
ENFILE == 23
EMFILE == 24
ENOSPC == 28
EROFS == 30
EBADMSG == 35

\* FatFs result codes, numbered as in the comments of fatfs_to_errno
FR_OK == 0
FR_DISK_ERR == 1
FR_INT_ERR == 2
FR_NOT_READY == 3
FR_NO_FILE == 4
FR_NO_PATH == 5
FR_INVALID_NAME == 6
FR_DENIED == 7
FR_EXIST == 8
FR_INVALID_OBJECT == 9
FR_WRITE_PROTECTED == 10
FR_INVALID_DRIVE == 11
FR_NOT_ENABLED == 12
FR_NO_FILESYSTEM == 13
FR_MKFS_ABORTED == 14
FR_TIMEOUT == 15
FR_LOCKED == 16
FR_NOT_ENOUGH_CORE == 17
FR_TOO_MANY_OPEN_FILES == 18
FR_INVALID_PARAMETER == 19
\* a result code the table of fatfs_to_errno does not list
FR_UNLISTED == 20

(***************************************************************************)
(* open(2) flags.  An int of flags is the set of its bits that are 1, so   *)
(* | is \cup and & is \cap.  O_RDONLY has no bit; O_WRONLY and O_RDWR are  *)
(* the two bits of O_ACCMODE; the int -1 has every bit set.                *)
(***************************************************************************)
O_RDONLY == {}
O_WRONLY == {"O_WRONLY"}
O_RDWR == {"O_RDWR"}
O_ACCMODE == {"O_WRONLY", "O_RDWR"}
O_CREAT == {"O_CREAT"}
O_TRUNC == {"O_TRUNC"}
O_APPEND == {"O_APPEND"}
MinusOne == O_ACCMODE \cup O_CREAT \cup O_TRUNC \cup O_APPEND \cup {"other bits"}

\* FatFs access mode bits
FA_OPEN_EXISTING == {}
FA_READ == {"FA_READ"}
FA_WRITE == {"FA_WRITE"}
FA_CREATE_ALWAYS == {"FA_CREATE_ALWAYS"}
FA_OPEN_ALWAYS == {"FA_OPEN_ALWAYS"}

\* stream flag bits
SRD == {"__SRD"}
SWR == {"__SWR"}
SUNGET == {"__SUNGET"}
SEOF == {"__SEOF"}
SERR == {"__SERR"}
SMALLOC == {"__SMALLOC"}
FDEV_SETUP_READ == SRD
FDEV_SETUP_WRITE == SWR
FDEV_SETUP_RW == SRD \cup SWR

\* a null function pointer, and the functions a stream's get and put point to
NOFN == "NULL"
FATFS_GETC == "fatfs_getc"
FATFS_PUTC == "fatfs_putc"
DEV_GETC == "device get"
DEV_PUTC == "device put"

(***************************************************************************)
(* Input domains.                                                          *)
(***************************************************************************)
Paths == {"/a.txt"}
\* the bytes files and the console carry: letters a and b
Bytes == {97, 98}
Addr == 1 .. (2 * MAX_FILES)
\* handles passed to the entry points: every slot, and one out of range each side
Fds == -1 .. MAX_FILES
\* the canonical fopen mode strings and some that are not
CanonicalModes ==
  {"r", "rb", "r+", "r+b", "rb+", "w", "wb", "w+", "w+b", "wb+",
   "a", "ab", "a+", "a+b", "ab+"}
ModeStrings == CanonicalModes \cup {"", "x"}
\* results the engine may report for a primitive besides what its contract forces
EngineFailures == {FR_DISK_ERR}
EngineResults == {FR_OK} \cup EngineFailures

(***************************************************************************)
(* Heap objects.                                                           *)
(***************************************************************************)
FreeCell == [kind |-> "free"]
\* safecalloc(sizeof(FILE),1): every field zero
ZeroFILE ==
  [kind |-> "FILE", flags |-> {}, udata |-> NULL, get |-> NOFN, put |-> NOFN,
   buf |-> NULL, len |-> 0, unget |-> 0]
\* safecalloc(sizeof(FIL),1): every field zero
ZeroFIL == [kind |-> "FIL", path |-> "", fptr |-> 0, mode |-> {}, isopen |-> FALSE]

NoFile == [exists |-> FALSE, data |-> <<>>]

Min(a, b) == IF a < b THEN a ELSE b

(***************************************************************************)
(* The machine state the C functions work on.                              *)
(***************************************************************************)
Machine == [iob |-> iob, mem |-> mem, disk |-> disk, errno |-> errno,
            elog |-> <<>>, fault |-> FALSE]

Ret(m, r) == [m |-> m, r |-> r]
SetErrno(m, e) == [m EXCEPT !.errno = e]

\* safecalloc: the lowest free cell, zero-filled; NULL when the allocator
\* finds no memory (ok = FALSE) or the heap is full
safecalloc(m, zero, ok) ==
  LET free == {a \in Addr : m.mem[a].kind = "free"} IN
  IF ~ok \/ free = {} THEN Ret(m, NULL)
  ELSE LET a == CHOOSE x \in free : \A y \in free : x <= y
       IN Ret([m EXCEPT !.mem[a] = zero], a)

safefree(m, p) == [m EXCEPT !.mem[p] = FreeCell]

\* the stream macros: stdin is __iob[0], stdout __iob[1], stderr __iob[2]
stdin(m) == m.iob[0]
stdout(m) == m.iob[1]
stderr(m) == m.iob[2]

fdev_get_udata(m, stream) == m.mem[stream].udata

(***************************************************************************)
(* The engine (FatFs), by its interface contract.  r is the result the     *)
(* engine reports when nothing in the contract forces another one.         *)
(***************************************************************************)
Log(m, fn, res) == [m EXCEPT !.elog = Append(@, [fn |-> fn, res |-> res])]

f_size(m, fh) == Len(m.disk[m.mem[fh].path].data)
f_tell(m, fh) == m.mem[fh].fptr

f_open(m, fh, path, mode, r) ==
  LET file == m.disk[path]
      res == IF r # FR_OK THEN r
             ELSE IF ~file.exists /\ mode \cap (FA_CREATE_ALWAYS \cup FA_OPEN_ALWAYS) = {}
                  THEN FR_NO_FILE
             ELSE FR_OK
      m1 == Log(m, "f_open", res)
  IN IF res # FR_OK THEN Ret(m1, res)
     ELSE Ret([m1 EXCEPT
                 !.disk[path] = IF FA_CREATE_ALWAYS \subseteq mode \/ ~file.exists
                                THEN [exists |-> TRUE, data |-> <<>>] ELSE file,
                 !.mem[fh] = [kind |-> "FIL", path |-> path, fptr |-> 0,
                              mode |-> mode \cap (FA_READ \cup FA_WRITE),
                              isopen |-> TRUE]],
              FR_OK)

f_close(m, fh, r) ==
  LET res == IF ~m.mem[fh].isopen THEN FR_INVALID_OBJECT ELSE r
      m1 == Log(m, "f_close", res)
  IN IF res # FR_OK THEN Ret(m1, res)
     ELSE Ret([m1 EXCEPT !.mem[fh].isopen = FALSE], FR_OK)

f_sync(m, fh, r) ==
  LET res == IF ~m.mem[fh].isopen THEN FR_INVALID_OBJECT ELSE r
  IN Ret(Log(m, "f_sync", res), res)

\* Seek.  Past the end of the file a writable file is extended (with bytes
\* of unspecified value, fill) as far as the volume has room, a read-only
\* file is clamped to its size.  A negative offset is a huge unsigned one.
f_lseek(m, fh, ofs, r, fill) ==
  LET f == m.mem[fh]
      res == IF ~f.isopen THEN FR_INVALID_OBJECT ELSE r
      m1 == Log(m, "f_lseek", res)
      size == f_size(m, fh)
      want == IF ofs < 0 \/ ofs > DiskCapacity THEN DiskCapacity + 1 ELSE ofs
      reach == IF want <= size THEN want
               ELSE IF FA_WRITE \subseteq f.mode THEN Min(want, DiskCapacity)
               ELSE size
      data == m.disk[f.path].data
      grown == data \o [i \in 1 .. (reach - size) |-> fill]
  IN IF res # FR_OK THEN Ret(m1, res)
     ELSE Ret([m1 EXCEPT !.mem[fh].fptr = reach,
                         !.disk[f.path].data = IF reach > size THEN grown ELSE data],
              FR_OK)

\* Read up to n bytes at the file position; rd is what was read.
f_read(m, fh, n, r) ==
  LET f == m.mem[fh]
      res == IF ~f.isopen THEN FR_INVALID_OBJECT
             ELSE IF r # FR_OK THEN r
             ELSE IF ~(FA_READ \subseteq f.mode) THEN FR_DENIED
             ELSE FR_OK
      m1 == Log(m, "f_read", res)
      data == m.disk[f.path].data
      avail == IF Len(data) > f.fptr THEN Len(data) - f.fptr ELSE 0
      k == Min(n, avail)
  IN IF res # FR_OK THEN [m |-> m1, r |-> res, rd |-> <<>>]
     ELSE [m |-> [m1 EXCEPT !.mem[fh].fptr = f.fptr + k],
           r |-> FR_OK, rd |-> SubSeq(data, f.fptr + 1, f.fptr + k)]

\* Write buf at the file position, as much of it as the volume has room for;
\* bw is the number of bytes written.  A position past the end (the file was
\* cut through another file object) leaves zero bytes in between.
f_write(m, fh, buf, r) ==
  LET f == m.mem[fh]
      res == IF ~f.isopen THEN FR_INVALID_OBJECT
             ELSE IF r # FR_OK THEN r
             ELSE IF ~(FA_WRITE \subseteq f.mode) THEN FR_DENIED
             ELSE FR_OK
      m1 == Log(m, "f_write", res)
      data == m.disk[f.path].data
      room == IF DiskCapacity > f.fptr THEN DiskCapacity - f.fptr ELSE 0
      k == Min(Len(buf), room)
      newlen == IF f.fptr + k > Len(data) THEN f.fptr + k ELSE Len(data)
      written == [i \in 1 .. newlen |->
                    IF i > f.fptr /\ i <= f.fptr + k THEN buf[i - f.fptr]
                    ELSE IF i <= Len(data) THEN data[i]
                    ELSE 0]
  IN IF res # FR_OK THEN [m |-> m1, r |-> res, bw |-> 0]
     ELSE [m |-> [m1 EXCEPT !.mem[fh].fptr = f.fptr + k,
                            !.disk[f.path].data = written],
           r |-> FR_OK, bw |-> k]

\* Truncate the file at the file position.
f_truncate(m, fh, r) ==
  LET f == m.mem[fh]
      res == IF ~f.isopen THEN FR_INVALID_OBJECT
             ELSE IF r # FR_OK THEN r
             ELSE IF ~(FA_WRITE \subseteq f.mode) THEN FR_DENIED
             ELSE FR_OK
      m1 == Log(m, "f_truncate", res)
      data == m.disk[f.path].data
  IN IF res # FR_OK THEN Ret(m1, res)
     ELSE Ret([m1 EXCEPT !.disk[f.path].data = SubSeq(data, 1, Min(f.fptr, Len(data)))],
              FR_OK)

(***************************************************************************)
(* posix.c: helpers.                                                       *)
(***************************************************************************)
isatty(fd) == fd >= 0 /\ fd <= 2

\* fileno_to_stream without the errno assignment for a free slot
fileno_to_stream_silent(m, fd) ==
  IF fd < 0 \/ fd >= MAX_FILES THEN Ret(SetErrno(m, EBADF), NULL)
  ELSE IF m.iob[fd] = NULL THEN Ret(m, NULL)
  ELSE Ret(m, m.iob[fd])

fileno_to_stream(m, fd) ==
  IF fd < 0 \/ fd >= MAX_FILES THEN Ret(SetErrno(m, EBADF), NULL)
  ELSE IF m.iob[fd] = NULL THEN Ret(SetErrno(m, EBADF), NULL)
  ELSE Ret(m, m.iob[fd])

\* fileno searching the table from the top: the last slot holding stream
fileno_last_slot(m, stream) ==
  IF stream = NULL THEN Ret(SetErrno(m, EBADF), -1)
  ELSE LET hit == {i \in 0 .. MAX_FILES - 1 : m.iob[i] = stream} IN
       IF hit = {} THEN Ret(m, -1)
       ELSE Ret(m, CHOOSE i \in hit : \A j \in hit : i >= j)

\* fileno(stream): the first slot holding stream, or -1
fileno(m, stream) ==
  IF stream = NULL THEN Ret(SetErrno(m, EBADF), -1)
  ELSE LET hit == {i \in 0 .. MAX_FILES - 1 : m.iob[i] = stream} IN
       IF hit = {} THEN Ret(m, -1)
       ELSE Ret(m, CHOOSE i \in hit : \A j \in hit : i <= j)

fileno_to_fatfs(m, fd) ==
  IF isatty(fd) THEN Ret(SetErrno(m, EBADF), NULL)
  ELSE LET s == fileno_to_stream(m, fd) IN
       IF s.r = NULL THEN Ret(s.m, NULL)
       ELSE LET fh == fdev_get_udata(s.m, s.r) IN
            IF fh = NULL THEN Ret(SetErrno(s.m, EBADF), NULL)
            ELSE Ret(s.m, fh)

\* fatfs_to_errno reporting an unlisted code as an input/output error
fatfs_to_errno_default_eio(Result) ==
  CASE Result = FR_OK -> 0
    [] Result = FR_DISK_ERR -> EIO
    [] Result = FR_INT_ERR -> EPERM
    [] Result = FR_NOT_READY -> EBUSY
    [] Result = FR_NO_FILE -> ENOENT
    [] Result = FR_NO_PATH -> ENOENT
    [] Result = FR_INVALID_NAME -> EINVAL
    [] Result = FR_DENIED -> EACCES
    [] Result = FR_EXIST -> EACCES
    [] Result = FR_INVALID_OBJECT -> EINVAL
    [] Result = FR_WRITE_PROTECTED -> EROFS
    [] Result = FR_INVALID_DRIVE -> ENXIO
    [] Result = FR_NOT_ENABLED -> ENOSPC
    [] Result = FR_NO_FILESYSTEM -> ENXIO
    [] Result = FR_MKFS_ABORTED -> EINVAL
    [] Result = FR_TIMEOUT -> EBUSY
    [] Result = FR_LOCKED -> EBUSY
    [] Result = FR_NOT_ENOUGH_CORE -> ENOMEM
    [] Result = FR_TOO_MANY_OPEN_FILES -> EMFILE
    [] Result = FR_INVALID_PARAMETER -> EINVAL
    [] OTHER -> EIO

fatfs_to_errno(Result) ==
  CASE Result = FR_OK -> 0
    [] Result = FR_DISK_ERR -> EIO
    [] Result = FR_INT_ERR -> EPERM
    [] Result = FR_NOT_READY -> EBUSY
    [] Result = FR_NO_FILE -> ENOENT
    [] Result = FR_NO_PATH -> ENOENT
    [] Result = FR_INVALID_NAME -> EINVAL
    [] Result = FR_DENIED -> EACCES
    [] Result = FR_EXIST -> EACCES
    [] Result = FR_INVALID_OBJECT -> EINVAL
    [] Result = FR_WRITE_PROTECTED -> EROFS
    [] Result = FR_INVALID_DRIVE -> ENXIO
    [] Result = FR_NOT_ENABLED -> ENOSPC
    [] Result = FR_NO_FILESYSTEM -> ENXIO
    [] Result = FR_MKFS_ABORTED -> EINVAL
    [] Result = FR_TIMEOUT -> EBUSY
    [] Result = FR_LOCKED -> EBUSY
    [] Result = FR_NOT_ENOUGH_CORE -> ENOMEM
    [] Result = FR_TOO_MANY_OPEN_FILES -> EMFILE
    [] Result = FR_INVALID_PARAMETER -> EINVAL
    [] OTHER -> EBADMSG

\* free_file_descriptor without __iob[fileno] = NULL
free_file_descriptor_keeps_slot(m, fd) ==
  IF isatty(fd) THEN Ret(SetErrno(m, EBADF), -1)
  ELSE LET s == fileno_to_stream(m, fd) IN
       IF s.r = NULL THEN Ret(s.m, -1)
       ELSE LET stream == s.r
                fh == fdev_get_udata(s.m, stream)
                m1 == IF fh # NULL THEN safefree(s.m, fh) ELSE s.m
                buf == m1.mem[stream].buf
                m2 == IF buf # NULL /\ SMALLOC \subseteq m1.mem[stream].flags
                      THEN safefree(m1, buf) ELSE m1
            IN Ret(safefree(m2, stream), fd)

free_file_descriptor(m, fd) ==
  IF isatty(fd) THEN Ret(SetErrno(m, EBADF), -1)
  ELSE LET s == fileno_to_stream(m, fd) IN
       IF s.r = NULL THEN Ret(s.m, -1)
       ELSE LET stream == s.r
                fh == fdev_get_udata(s.m, stream)
                m1 == IF fh # NULL THEN safefree(s.m, fh) ELSE s.m
                buf == m1.mem[stream].buf
                m2 == IF buf # NULL /\ SMALLOC \subseteq m1.mem[stream].flags
                      THEN safefree(m1, buf) ELSE m1
                m3 == [m2 EXCEPT !.iob[fd] = NULL]
            IN Ret(safefree(m3, stream), fd)

\* new_file_descriptor scanning the table from its last slot down
new_file_descriptor_from_top(m, okStream, okFh) ==
  LET slots == {i \in 0 .. MAX_FILES - 1 : ~isatty(i) /\ m.iob[i] = NULL} IN
  IF slots = {} THEN Ret(SetErrno(m, ENFILE), -1)
  ELSE LET i == CHOOSE x \in slots : \A y \in slots : x >= y
           stream == safecalloc(m, ZeroFILE, okStream)
       IN IF stream.r = NULL THEN Ret(SetErrno(stream.m, ENOMEM), -1)
          ELSE LET fh == safecalloc(stream.m, ZeroFIL, okFh) IN
               IF fh.r = NULL
               THEN Ret(SetErrno(safefree(fh.m, stream.r), ENOMEM), -1)
               ELSE Ret([fh.m EXCEPT !.iob[i] = stream.r,
                                     !.mem[stream.r].udata = fh.r], i)

\* new_file_descriptor with the search not skipping the console handles
new_file_descriptor_any_slot(m, okStream, okFh) ==
  LET slots == {i \in 0 .. MAX_FILES - 1 : m.iob[i] = NULL} IN
  IF slots = {} THEN Ret(SetErrno(m, ENFILE), -1)
  ELSE LET i == CHOOSE x \in slots : \A y \in slots : x <= y
           stream == safecalloc(m, ZeroFILE, okStream)
       IN IF stream.r = NULL THEN Ret(SetErrno(stream.m, ENOMEM), -1)
          ELSE LET fh == safecalloc(stream.m, ZeroFIL, okFh) IN
               IF fh.r = NULL
               THEN Ret(SetErrno(safefree(fh.m, stream.r), ENOMEM), -1)
               ELSE Ret([fh.m EXCEPT !.iob[i] = stream.r,
                                     !.mem[stream.r].udata = fh.r], i)

\* new_file_descriptor with the loop bound i < MAX_FILES - 1
new_file_descriptor_one_short(m, okStream, okFh) ==
  LET slots == {i \in 0 .. MAX_FILES - 2 : ~isatty(i) /\ m.iob[i] = NULL} IN
  IF slots = {} THEN Ret(SetErrno(m, ENFILE), -1)
  ELSE LET i == CHOOSE x \in slots : \A y \in slots : x <= y
           stream == safecalloc(m, ZeroFILE, okStream)
       IN IF stream.r = NULL THEN Ret(SetErrno(stream.m, ENOMEM), -1)
          ELSE LET fh == safecalloc(stream.m, ZeroFIL, okFh) IN
               IF fh.r = NULL
               THEN Ret(SetErrno(safefree(fh.m, stream.r), ENOMEM), -1)
               ELSE Ret([fh.m EXCEPT !.iob[i] = stream.r,
                                     !.mem[stream.r].udata = fh.r], i)

\* okStream, okFh: whether safecalloc finds memory for the FILE and for the FIL
new_file_descriptor(m, okStream, okFh) ==
  LET slots == {i \in 0 .. MAX_FILES - 1 : ~isatty(i) /\ m.iob[i] = NULL} IN
  IF slots = {} THEN Ret(SetErrno(m, ENFILE), -1)
  ELSE LET i == CHOOSE x \in slots : \A y \in slots : x <= y
           stream == safecalloc(m, ZeroFILE, okStream)
       IN IF stream.r = NULL THEN Ret(SetErrno(stream.m, ENOMEM), -1)
          ELSE LET fh == safecalloc(stream.m, ZeroFIL, okFh) IN
               IF fh.r = NULL
               THEN Ret(SetErrno(safefree(fh.m, stream.r), ENOMEM), -1)
               ELSE Ret([fh.m EXCEPT !.iob[i] = stream.r,
                                     !.mem[stream.r].udata = fh.r], i)

modecmp(str, pat) == str = pat

\* posix_fopen_modes_to_open returning the flags it computed for a+
posix_fopen_modes_to_open_computed(mode) ==
  IF modecmp(mode, "r") \/ modecmp(mode, "rb") THEN O_RDONLY
  ELSE IF modecmp(mode, "r+") \/ modecmp(mode, "r+b") \/ modecmp(mode, "rb+")
       THEN O_RDWR \cup O_TRUNC
  ELSE IF modecmp(mode, "w") \/ modecmp(mode, "wb")
       THEN O_WRONLY \cup O_CREAT \cup O_TRUNC
  ELSE IF modecmp(mode, "w+") \/ modecmp(mode, "w+b") \/ modecmp(mode, "wb+")
       THEN O_RDWR \cup O_CREAT \cup O_TRUNC
  ELSE IF modecmp(mode, "a") \/ modecmp(mode, "ab")
       THEN O_WRONLY \cup O_CREAT \cup O_APPEND
  ELSE IF modecmp(mode, "a+") \/ modecmp(mode, "a+b") \/ modecmp(mode, "ab+")
       THEN O_RDWR \cup O_CREAT \cup O_APPEND
  ELSE MinusOne

posix_fopen_modes_to_open(mode) ==
  IF modecmp(mode, "r") \/ modecmp(mode, "rb") THEN O_RDONLY
  ELSE IF modecmp(mode, "r+") \/ modecmp(mode, "r+b") \/ modecmp(mode, "rb+")
       THEN O_RDWR \cup O_TRUNC
  ELSE IF modecmp(mode, "w") \/ modecmp(mode, "wb")
       THEN O_WRONLY \cup O_CREAT \cup O_TRUNC
  ELSE IF modecmp(mode, "w+") \/ modecmp(mode, "w+b") \/ modecmp(mode, "wb+")
       THEN O_RDWR \cup O_CREAT \cup O_TRUNC
  ELSE IF modecmp(mode, "a") \/ modecmp(mode, "ab")
       THEN O_WRONLY \cup O_CREAT \cup O_APPEND
  ELSE IF modecmp(mode, "a+") \/ modecmp(mode, "a+b") \/ modecmp(mode, "ab+")
       THEN MinusOne
  ELSE MinusOne

(***************************************************************************)
(* Oracles: what a call cannot decide itself.                              *)
(*   okStream, okFh  whether safecalloc finds memory                       *)
(*   e1, e2, e3      the results of the engine primitives the call makes,  *)
(*                   in order                                              *)
(*   fill            the unspecified bytes of a file extended by a seek    *)
(*   dev             what the console device returns, call by call         *)
(*   trap            whether a null-pointer dereference traps              *)
(***************************************************************************)
NoOracle ==
  [okStream |-> TRUE, okFh |-> TRUE, e1 |-> FR_OK, e2 |-> FR_OK, e3 |-> FR_OK,
   fill |-> 97, dev |-> <<>>, trap |-> FALSE]

(***************************************************************************)
(* posix.c: character I/O.                                                 *)
(***************************************************************************)
CR == 13
LF == 10

AddFlags(m, stream, fl) == [m EXCEPT !.mem[stream].flags = @ \cup fl]
DelFlags(m, stream, fl) == [m EXCEPT !.mem[stream].flags = @ \ fl]

\* fatfs_getc not seeking back over the byte read after a bare carriage return
fatfs_getc_keeps_position(m, stream, o) ==
  LET m1 == SetErrno(m, 0) IN
  IF stream = NULL THEN Ret(SetErrno(m1, EBADF), EOF)
  ELSE LET fh == fdev_get_udata(m1, stream) IN
  IF fh = NULL THEN Ret(SetErrno(m1, EBADF), EOF)
  ELSE LET rd == f_read(m1, fh, 1, o.e1) IN
  IF rd.r # FR_OK \/ Len(rd.rd) # 1
  THEN Ret(AddFlags(SetErrno(rd.m, fatfs_to_errno(rd.r)), stream, SEOF), EOF)
  ELSE LET c == rd.rd[1] IN
  IF c = CR
  THEN LET pos == f_tell(rd.m, fh)
           rd2 == f_read(rd.m, fh, 1, o.e2)
       IN IF rd2.r # FR_OK \/ Len(rd2.rd) # 1 THEN Ret(rd2.m, LF)
          ELSE IF rd2.rd[1] # LF
               THEN Ret(rd2.m, LF)
               ELSE Ret(rd2.m, LF)
  ELSE Ret(rd.m, c)

\* fatfs_getc handing the byte read after a bare carriage return to the
\* pushback slot of the stream instead of seeking back
fatfs_getc_pushes_back(m, stream, o) ==
  LET m1 == SetErrno(m, 0) IN
  IF stream = NULL THEN Ret(SetErrno(m1, EBADF), EOF)
  ELSE LET fh == fdev_get_udata(m1, stream) IN
  IF fh = NULL THEN Ret(SetErrno(m1, EBADF), EOF)
  ELSE LET rd == f_read(m1, fh, 1, o.e1) IN
  IF rd.r # FR_OK \/ Len(rd.rd) # 1
  THEN Ret(AddFlags(SetErrno(rd.m, fatfs_to_errno(rd.r)), stream, SEOF), EOF)
  ELSE LET c == rd.rd[1] IN
  IF c = CR
  THEN LET pos == f_tell(rd.m, fh)
           rd2 == f_read(rd.m, fh, 1, o.e2)
       IN IF rd2.r # FR_OK \/ Len(rd2.rd) # 1 THEN Ret(rd2.m, LF)
          ELSE IF rd2.rd[1] # LF
               THEN Ret([AddFlags(rd2.m, stream, SUNGET)
                              EXCEPT !.mem[stream].unget = rd2.rd[1]], LF)
               ELSE Ret(rd2.m, LF)
  ELSE Ret(rd.m, c)

fatfs_getc(m, stream, o) ==
  LET m1 == SetErrno(m, 0) IN
  IF stream = NULL THEN Ret(SetErrno(m1, EBADF), EOF)
  ELSE LET fh == fdev_get_udata(m1, stream) IN
  IF fh = NULL THEN Ret(SetErrno(m1, EBADF), EOF)
  ELSE LET rd == f_read(m1, fh, 1, o.e1) IN
  IF rd.r # FR_OK \/ Len(rd.rd) # 1
  THEN Ret(AddFlags(SetErrno(rd.m, fatfs_to_errno(rd.r)), stream, SEOF), EOF)
  ELSE LET c == rd.rd[1] IN
  IF c = CR
  THEN LET pos == f_tell(rd.m, fh)
           rd2 == f_read(rd.m, fh, 1, o.e2)
       IN IF rd2.r # FR_OK \/ Len(rd2.rd) # 1 THEN Ret(rd2.m, LF)
          ELSE IF rd2.rd[1] # LF
               THEN Ret(f_lseek(rd2.m, fh, pos, o.e3, o.fill).m, LF)
               ELSE Ret(rd2.m, LF)
  ELSE Ret(rd.m, c)

fatfs_putc(m, c, stream, o) ==
  LET m1 == SetErrno(m, 0) IN
  IF stream = NULL THEN Ret(SetErrno(m1, EBADF), EOF)
  ELSE LET fh == fdev_get_udata(m1, stream) IN
  IF fh = NULL THEN Ret(SetErrno(m1, EBADF), EOF)
  ELSE LET w == f_write(m1, fh, <<c>>, o.e1) IN
  IF w.r # FR_OK \/ w.bw # 1
  THEN Ret(AddFlags(SetErrno(w.m, fatfs_to_errno(w.r)), stream, SEOF), EOF)
  ELSE Ret(w.m, c)

\* fgetc marking every negative result of the get function as an error
fgetc_got_always_error(c, stream) ==
  IF c.r < 0
  THEN Ret(AddFlags(c.m, stream, SERR), EOF)
  ELSE Ret([c.m EXCEPT !.mem[stream].len = @ + 1], c.r)

\* fgetc after the get function of the stream has returned c
fgetc_got(c, stream) ==
  IF c.r < 0
  THEN Ret(AddFlags(c.m, stream, IF c.r = FDEV_ERR THEN SERR ELSE SEOF), EOF)
  ELSE Ret([c.m EXCEPT !.mem[stream].len = @ + 1], c.r)

\* No function of posix.c sets __SSTR, so a stream never has a string buffer
\* and the branch of fgetc and fputc for one is never taken.
\* fgetc returning the pending byte without clearing the pending flag
fgetc_keeps_pending(m, stream, o) ==
  IF stream = NULL THEN Ret(SetErrno(m, EBADF), EOF)
  ELSE LET s == m.mem[stream] IN
  IF s.flags \cap SRD = {} THEN Ret(m, EOF)
  ELSE IF s.flags \cap SUNGET # {}
  THEN Ret([m EXCEPT !.mem[stream].len = @ + 1], s.unget)
  ELSE IF s.get = NOFN THEN Ret(m, EOF)
  ELSE fgetc_got(IF s.get = FATFS_GETC THEN fatfs_getc(m, stream, o)
                 ELSE Ret(m, Head(o.dev)), stream)

fgetc(m, stream, o) ==
  IF stream = NULL THEN Ret(SetErrno(m, EBADF), EOF)
  ELSE LET s == m.mem[stream] IN
  IF s.flags \cap SRD = {} THEN Ret(m, EOF)
  ELSE IF s.flags \cap SUNGET # {}
  THEN Ret([DelFlags(m, stream, SUNGET) EXCEPT !.mem[stream].len = @ + 1], s.unget)
  ELSE IF s.get = NOFN THEN Ret(m, EOF)
  ELSE fgetc_got(IF s.get = FATFS_GETC THEN fatfs_getc(m, stream, o)
                 ELSE Ret(m, Head(o.dev)), stream)

\* the characters n successive calls of fgetc return before the first EOF
RECURSIVE fgetc_all(_, _, _)
fgetc_rest(g, stream, n) ==
  IF g.r = EOF THEN <<>>
  ELSE <<g.r>> \o fgetc_all(g.m, stream, n - 1)

fgetc_all(m, stream, n) ==
  IF n = 0 THEN <<>>
  ELSE fgetc_rest(fgetc(m, stream, NoOracle), stream, n)

feof(m, stream) == IF m.mem[stream].flags \cap SEOF # {} THEN 1 ELSE 0

ferror(m, stream) == IF m.mem[stream].flags \cap SERR # {} THEN 1 ELSE 0

fputc(m, c, stream, o) ==
  LET m1 == SetErrno(m, 0) IN
  IF stream = NULL THEN Ret(SetErrno(m1, EBADF), EOF)
  ELSE IF stream # stdout(m1) /\ stream # stderr(m1) THEN fatfs_putc(m1, c, stream, o)
  ELSE LET s == m1.mem[stream] IN
  IF s.flags \cap SWR = {} THEN Ret(m1, EOF)
  ELSE IF s.put = NOFN THEN Ret(m1, EOF)
  ELSE LET r == Head(o.dev) IN
       IF r # EOF THEN Ret([m1 EXCEPT !.mem[stream].len = @ + 1], r)
       ELSE Ret(m1, r)

\* ungetc without the test for a pushback already pending
ungetc_over_pending(fn, c, stream) ==
  IF ~isatty(fn.r) THEN Ret(fn.m, EOF)
  ELSE IF c = EOF THEN Ret(fn.m, EOF)
  ELSE IF fn.m.mem[stream].flags \cap SRD = {} THEN Ret(fn.m, EOF)
  ELSE Ret([fn.m EXCEPT !.mem[stream].flags = (@ \cup SUNGET) \ SEOF,
                        !.mem[stream].unget = c,
                        !.mem[stream].len = @ - 1], c)

\* ungetc once fileno has resolved the stream to the handle fn.r
ungetc_at(fn, c, stream) ==
  IF ~isatty(fn.r) THEN Ret(fn.m, EOF)
  ELSE IF c = EOF THEN Ret(fn.m, EOF)
  ELSE IF fn.m.mem[stream].flags \cap SUNGET # {} THEN Ret(fn.m, EOF)
  ELSE IF fn.m.mem[stream].flags \cap SRD = {} THEN Ret(fn.m, EOF)
  ELSE Ret([fn.m EXCEPT !.mem[stream].flags = (@ \cup SUNGET) \ SEOF,
                        !.mem[stream].unget = c,
                        !.mem[stream].len = @ - 1], c)

ungetc(m, c, stream) == ungetc_at(fileno(m, stream), c, stream)

\* the backspace character, and the address of the caller's buffer
BS == 8
STR == 1

\* str[ind] = c: the buffer holds the bytes written so far, from index 0
StoreAt(buf, ind, c) ==
  [i \in 1 .. (IF ind + 1 > Len(buf) THEN ind + 1 ELSE Len(buf)) |->
     IF i = ind + 1 THEN c ELSE buf[i]]

\* fgets after its loop: the terminating zero is stored at ind
fgets_end(m, ind, buf) == [m |-> m, r |-> STR, str |-> StoreAt(buf, ind, 0)]

\* the loop of fgets; size is what the test size-- sees, ind the index of
\* the next character, buf what was written to str
RECURSIVE fgets_loop(_, _, _, _, _, _)
\* one round of the loop storing a backspace like any other character
fgets_got_stores_backspace(g, stream, size, ind, buf, o) ==
  IF g.r = EOF
  THEN IF ind = 0 THEN [m |-> g.m, r |-> NULL, str |-> buf] ELSE fgets_end(g.m, ind, buf)
  ELSE IF g.r = LF THEN fgets_end(g.m, ind, buf)
  ELSE fgets_loop(g.m, stream, size, ind + 1, StoreAt(buf, ind, g.r),
                  [o EXCEPT !.dev = Tail(@)])

\* one round of the loop after fgetc has returned g
fgets_got(g, stream, size, ind, buf, o) ==
  IF g.r = EOF
  THEN IF ind = 0 THEN [m |-> g.m, r |-> NULL, str |-> buf] ELSE fgets_end(g.m, ind, buf)
  ELSE IF g.r = LF THEN fgets_end(g.m, ind, buf)
  ELSE IF g.r = BS
  THEN fgets_loop(g.m, stream, size, IF ind > 0 THEN ind - 1 ELSE ind, buf,
                  [o EXCEPT !.dev = Tail(@)])
  ELSE fgets_loop(g.m, stream, size, ind + 1, StoreAt(buf, ind, g.r),
                  [o EXCEPT !.dev = Tail(@)])

fgets_loop(m, stream, size, ind, buf, o) ==
  IF size = 0 THEN fgets_end(m, ind, buf)
  ELSE fgets_got(fgetc(m, stream, o), stream, size - 1, ind, buf, o)

\* fgets(str, size, stream) for size >= 0; o.dev is what the device hands
\* over, one element for each call of its get function
fgets(m, size, stream, o) == fgets_loop(m, stream, size, 0, <<>>, o)

(***************************************************************************)
(* posix.c: file functions.                                                *)
(***************************************************************************)
\* open returning on a failed f_open without free_file_descriptor
open_keeps_descriptor(m, pathname, flags, o) ==
  LET m1 == SetErrno(m, 0)
      access == IF flags \cap O_ACCMODE = O_RDWR THEN FA_READ \cup FA_WRITE
                ELSE IF flags \cap O_ACCMODE = O_RDONLY THEN FA_READ
                ELSE FA_WRITE
      fatfs_modes ==
        access \cup (IF flags \cap O_CREAT # {}
                     THEN (IF flags \cap O_TRUNC # {} THEN FA_CREATE_ALWAYS
                           ELSE FA_OPEN_ALWAYS)
                     ELSE {})
      nfd == new_file_descriptor(m1, o.okStream, o.okFh)
      fd == nfd.r
      stream == fileno_to_stream(nfd.m, fd)
  IN IF stream.r = NULL THEN Ret(free_file_descriptor(stream.m, fd).m, -1)
     ELSE LET fh == fileno_to_fatfs(stream.m, fd) IN
     IF fh.r = NULL
     THEN Ret(SetErrno(free_file_descriptor(fh.m, fd).m, EBADF), -1)
     ELSE LET res == f_open(fh.m, fh.r, pathname, fatfs_modes, o.e1) IN
     IF res.r # FR_OK
     THEN Ret(SetErrno(res.m, fatfs_to_errno(res.r)), -1)
     ELSE LET sk == IF flags \cap O_APPEND # {}
                    THEN f_lseek(res.m, fh.r, f_size(res.m, fh.r), o.e2, o.fill)
                    ELSE Ret(res.m, FR_OK)
          IN
     IF sk.r # FR_OK
     THEN Ret(free_file_descriptor(
                f_close(SetErrno(sk.m, fatfs_to_errno(sk.r)), fh.r, o.e3).m, fd).m, -1)
     ELSE IF flags \cap O_ACCMODE = O_RDWR
          THEN Ret([sk.m EXCEPT !.mem[stream.r].put = FATFS_PUTC,
                                !.mem[stream.r].get = FATFS_GETC,
                                !.mem[stream.r].flags = FDEV_SETUP_RW], fd)
     ELSE IF flags \cap O_ACCMODE = O_RDONLY
          THEN Ret([sk.m EXCEPT !.mem[stream.r].put = NOFN,
                                !.mem[stream.r].get = FATFS_GETC,
                                !.mem[stream.r].flags = FDEV_SETUP_READ], fd)
     ELSE Ret([sk.m EXCEPT !.mem[stream.r].put = FATFS_PUTC,
                           !.mem[stream.r].get = NOFN,
                           !.mem[stream.r].flags = FDEV_SETUP_WRITE], fd)

\* open binding put = fatfs_putc on a read-only stream too
open_binds_put_always(m, pathname, flags, o) ==
  LET m1 == SetErrno(m, 0)
      access == IF flags \cap O_ACCMODE = O_RDWR THEN FA_READ \cup FA_WRITE
                ELSE IF flags \cap O_ACCMODE = O_RDONLY THEN FA_READ
                ELSE FA_WRITE
      fatfs_modes ==
        access \cup (IF flags \cap O_CREAT # {}
                     THEN (IF flags \cap O_TRUNC # {} THEN FA_CREATE_ALWAYS
                           ELSE FA_OPEN_ALWAYS)
                     ELSE {})
      nfd == new_file_descriptor(m1, o.okStream, o.okFh)
      fd == nfd.r
      stream == fileno_to_stream(nfd.m, fd)
  IN IF stream.r = NULL THEN Ret(free_file_descriptor(stream.m, fd).m, -1)
     ELSE LET fh == fileno_to_fatfs(stream.m, fd) IN
     IF fh.r = NULL
     THEN Ret(SetErrno(free_file_descriptor(fh.m, fd).m, EBADF), -1)
     ELSE LET res == f_open(fh.m, fh.r, pathname, fatfs_modes, o.e1) IN
     IF res.r # FR_OK
     THEN Ret(free_file_descriptor(SetErrno(res.m, fatfs_to_errno(res.r)), fd).m, -1)
     ELSE LET sk == IF flags \cap O_APPEND # {}
                    THEN f_lseek(res.m, fh.r, f_size(res.m, fh.r), o.e2, o.fill)
                    ELSE Ret(res.m, FR_OK)
          IN
     IF sk.r # FR_OK
     THEN Ret(free_file_descriptor(
                f_close(SetErrno(sk.m, fatfs_to_errno(sk.r)), fh.r, o.e3).m, fd).m, -1)
     ELSE IF flags \cap O_ACCMODE = O_RDWR
          THEN Ret([sk.m EXCEPT !.mem[stream.r].put = FATFS_PUTC,
                                !.mem[stream.r].get = FATFS_GETC,
                                !.mem[stream.r].flags = FDEV_SETUP_RW], fd)
     ELSE IF flags \cap O_ACCMODE = O_RDONLY
          THEN Ret([sk.m EXCEPT !.mem[stream.r].put = FATFS_PUTC,
                                !.mem[stream.r].get = FATFS_GETC,
                                !.mem[stream.r].flags = FDEV_SETUP_READ], fd)
     ELSE Ret([sk.m EXCEPT !.mem[stream.r].put = FATFS_PUTC,
                           !.mem[stream.r].get = NOFN,
                           !.mem[stream.r].flags = FDEV_SETUP_WRITE], fd)

\* open releasing the slot after a failed append seek without f_close
open_leaves_file_open(m, pathname, flags, o) ==
  LET m1 == SetErrno(m, 0)
      access == IF flags \cap O_ACCMODE = O_RDWR THEN FA_READ \cup FA_WRITE
                ELSE IF flags \cap O_ACCMODE = O_RDONLY THEN FA_READ
                ELSE FA_WRITE
      fatfs_modes ==
        access \cup (IF flags \cap O_CREAT # {}
                     THEN (IF flags \cap O_TRUNC # {} THEN FA_CREATE_ALWAYS
                           ELSE FA_OPEN_ALWAYS)
                     ELSE {})
      nfd == new_file_descriptor(m1, o.okStream, o.okFh)
      fd == nfd.r
      stream == fileno_to_stream(nfd.m, fd)
  IN IF stream.r = NULL THEN Ret(free_file_descriptor(stream.m, fd).m, -1)
     ELSE LET fh == fileno_to_fatfs(stream.m, fd) IN
     IF fh.r = NULL
     THEN Ret(SetErrno(free_file_descriptor(fh.m, fd).m, EBADF), -1)
     ELSE LET res == f_open(fh.m, fh.r, pathname, fatfs_modes, o.e1) IN
     IF res.r # FR_OK
     THEN Ret(free_file_descriptor(SetErrno(res.m, fatfs_to_errno(res.r)), fd).m, -1)
     ELSE LET sk == IF flags \cap O_APPEND # {}
                    THEN f_lseek(res.m, fh.r, f_size(res.m, fh.r), o.e2, o.fill)
                    ELSE Ret(res.m, FR_OK)
          IN
     IF sk.r # FR_OK
     THEN Ret(free_file_descriptor(SetErrno(sk.m, fatfs_to_errno(sk.r)), fd).m, -1)
     ELSE IF flags \cap O_ACCMODE = O_RDWR
          THEN Ret([sk.m EXCEPT !.mem[stream.r].put = FATFS_PUTC,
                                !.mem[stream.r].get = FATFS_GETC,
                                !.mem[stream.r].flags = FDEV_SETUP_RW], fd)
     ELSE IF flags \cap O_ACCMODE = O_RDONLY
          THEN Ret([sk.m EXCEPT !.mem[stream.r].put = NOFN,
                                !.mem[stream.r].get = FATFS_GETC,
                                !.mem[stream.r].flags = FDEV_SETUP_READ], fd)
     ELSE Ret([sk.m EXCEPT !.mem[stream.r].put = FATFS_PUTC,
                           !.mem[stream.r].get = NOFN,
                           !.mem[stream.r].flags = FDEV_SETUP_WRITE], fd)

open(m, pathname, flags, o) ==
  LET m1 == SetErrno(m, 0)
      access == IF flags \cap O_ACCMODE = O_RDWR THEN FA_READ \cup FA_WRITE
                ELSE IF flags \cap O_ACCMODE = O_RDONLY THEN FA_READ
                ELSE FA_WRITE
      fatfs_modes ==
        access \cup (IF flags \cap O_CREAT # {}
                     THEN (IF flags \cap O_TRUNC # {} THEN FA_CREATE_ALWAYS
                           ELSE FA_OPEN_ALWAYS)
                     ELSE {})
      nfd == new_file_descriptor(m1, o.okStream, o.okFh)
      fd == nfd.r
      stream == fileno_to_stream(nfd.m, fd)
  IN IF stream.r = NULL THEN Ret(free_file_descriptor(stream.m, fd).m, -1)
     ELSE LET fh == fileno_to_fatfs(stream.m, fd) IN
     IF fh.r = NULL
     THEN Ret(SetErrno(free_file_descriptor(fh.m, fd).m, EBADF), -1)
     ELSE LET res == f_open(fh.m, fh.r, pathname, fatfs_modes, o.e1) IN
     IF res.r # FR_OK
     THEN Ret(free_file_descriptor(SetErrno(res.m, fatfs_to_errno(res.r)), fd).m, -1)
     ELSE LET sk == IF flags \cap O_APPEND # {}
                    THEN f_lseek(res.m, fh.r, f_size(res.m, fh.r), o.e2, o.fill)
                    ELSE Ret(res.m, FR_OK)
          IN
     IF sk.r # FR_OK
     THEN Ret(free_file_descriptor(
                f_close(SetErrno(sk.m, fatfs_to_errno(sk.r)), fh.r, o.e3).m, fd).m, -1)
     ELSE IF flags \cap O_ACCMODE = O_RDWR
          THEN Ret([sk.m EXCEPT !.mem[stream.r].put = FATFS_PUTC,
                                !.mem[stream.r].get = FATFS_GETC,
                                !.mem[stream.r].flags = FDEV_SETUP_RW], fd)
     ELSE IF flags \cap O_ACCMODE = O_RDONLY
          THEN Ret([sk.m EXCEPT !.mem[stream.r].put = NOFN,
                                !.mem[stream.r].get = FATFS_GETC,
                                !.mem[stream.r].flags = FDEV_SETUP_READ], fd)
     ELSE Ret([sk.m EXCEPT !.mem[stream.r].put = FATFS_PUTC,
                           !.mem[stream.r].get = NOFN,
                           !.mem[stream.r].flags = FDEV_SETUP_WRITE], fd)

\* the stream a descriptor just returned by open resolves to
stream_of(fd) == fileno_to_stream(fd.m, fd.r)

fopen(m, path, mode, o) ==
  stream_of(open(m, path, posix_fopen_modes_to_open(mode), o))

\* close testing the result of f_close before free_file_descriptor
close_keeps_on_failure(m, fd, o) ==
  LET m1 == SetErrno(m, 0)
      stream == fileno_to_stream(m1, fd)
  IN IF stream.r = NULL THEN Ret(stream.m, -1)
     ELSE LET fh == fileno_to_fatfs(stream.m, fd) IN
     IF fh.r = NULL THEN Ret(fh.m, -1)
     ELSE LET res == f_close(fh.m, fh.r, o.e1)
          IN IF res.r # FR_OK THEN Ret(SetErrno(res.m, fatfs_to_errno(res.r)), -1)
             ELSE Ret(free_file_descriptor(res.m, fd).m, 0)

close(m, fd, o) ==
  LET m1 == SetErrno(m, 0)
      stream == fileno_to_stream(m1, fd)
  IN IF stream.r = NULL THEN Ret(stream.m, -1)
     ELSE LET fh == fileno_to_fatfs(stream.m, fd) IN
     IF fh.r = NULL THEN Ret(fh.m, -1)
     ELSE LET res == f_close(fh.m, fh.r, o.e1)
              m2 == free_file_descriptor(res.m, fd).m
          IN IF res.r # FR_OK THEN Ret(SetErrno(m2, fatfs_to_errno(res.r)), -1)
             ELSE Ret(m2, 0)

fclose(m, stream, o) ==
  LET fn == fileno(m, stream) IN
  IF fn.r < 0 THEN Ret(fn.m, EOF)
  ELSE close(fn.m, fn.r, o)

\* the console loop of read: fgetc until count bytes are read or one fails
RECURSIVE tty_read(_, _, _, _)
\* the character g.r read, followed by the characters of the later rounds
tty_read_cons(g, rest) ==
  [m |-> rest.m, r |-> 1 + rest.r, buf |-> <<g.r>> \o rest.buf]

\* one round of the loop after fgetc has returned g
tty_read_got(g, stream, count, o) ==
  IF g.r < 0 THEN [m |-> g.m, r |-> 0, buf |-> <<>>]
  ELSE tty_read_cons(g, tty_read(g.m, stream, count - 1, [o EXCEPT !.dev = Tail(@)]))

tty_read(m, stream, count, o) ==
  IF count = 0 THEN [m |-> m, r |-> 0, buf |-> <<>>]
  ELSE tty_read_got(fgetc(m, stream, o), stream, count, o)

\* read rewriting carriage returns as the character stream reader does
read_translates_cr(m, fd, count, o) ==
  LET m1 == SetErrno(m, 0)
      stream == fileno_to_stream(m1, fd)
  IN IF stream.r = stdin(stream.m)
     THEN IF stream.r = NULL
          THEN \* stream->flags |= __SUNGET through a null pointer
               IF o.trap THEN [m |-> [stream.m EXCEPT !.fault = TRUE], r |-> 0, buf |-> <<>>]
               ELSE tty_read(stream.m, stream.r, count, o)
          ELSE tty_read(AddFlags(stream.m, stream.r, SUNGET), stream.r, count, o)
     ELSE IF stream.r = stdout(stream.m) \/ stream.r = stderr(stream.m)
          THEN [m |-> stream.m, r |-> -1, buf |-> <<>>]
     ELSE LET fh == fileno_to_fatfs(stream.m, fd) IN
     IF fh.r = NULL THEN [m |-> SetErrno(fh.m, EBADF), r |-> -1, buf |-> <<>>]
     ELSE LET res == f_read(fh.m, fh.r, count, o.e1) IN
     IF res.r # FR_OK
     THEN [m |-> SetErrno(res.m, fatfs_to_errno(res.r)), r |-> -1, buf |-> <<>>]
     ELSE [m |-> res.m, r |-> Len(res.rd),
           buf |-> [k \in 1 .. Len(res.rd) |-> IF res.rd[k] = CR THEN LF ELSE res.rd[k]]]

read(m, fd, count, o) ==
  LET m1 == SetErrno(m, 0)
      stream == fileno_to_stream(m1, fd)
  IN IF stream.r = stdin(stream.m)
     THEN IF stream.r = NULL
          THEN \* stream->flags |= __SUNGET through a null pointer
               IF o.trap THEN [m |-> [stream.m EXCEPT !.fault = TRUE], r |-> 0, buf |-> <<>>]
               ELSE tty_read(stream.m, stream.r, count, o)
          ELSE tty_read(AddFlags(stream.m, stream.r, SUNGET), stream.r, count, o)
     ELSE IF stream.r = stdout(stream.m) \/ stream.r = stderr(stream.m)
          THEN [m |-> stream.m, r |-> -1, buf |-> <<>>]
     ELSE LET fh == fileno_to_fatfs(stream.m, fd) IN
     IF fh.r = NULL THEN [m |-> SetErrno(fh.m, EBADF), r |-> -1, buf |-> <<>>]
     ELSE LET res == f_read(fh.m, fh.r, count, o.e1) IN
     IF res.r # FR_OK
     THEN [m |-> SetErrno(res.m, fatfs_to_errno(res.r)), r |-> -1, buf |-> <<>>]
     ELSE [m |-> res.m, r |-> Len(res.rd), buf |-> res.rd]

\* the console loop of write: fputc until every byte is put or one fails
RECURSIVE tty_write(_, _, _, _)
tty_write(m, stream, buf, o) ==
  IF buf = <<>> THEN Ret(m, 0)
  ELSE LET c == Head(buf)
           p == fputc(m, c, stream, o)
       IN IF c # p.r THEN Ret(p.m, 0)
          ELSE LET rest == tty_write(p.m, stream, Tail(buf), [o EXCEPT !.dev = Tail(@)])
               IN Ret(rest.m, 1 + rest.r)

\* write returning the count it was asked for, not the count transferred
write_returns_requested(m, fd, buf, o) ==
  LET m1 == SetErrno(m, 0)
      stream == fileno_to_stream(m1, fd)
  IN IF stream.r = stdout(stream.m) \/ stream.r = stderr(stream.m)
     THEN tty_write(stream.m, stream.r, buf, o)
     ELSE IF stream.r = stdin(stream.m) THEN Ret(stream.m, -1)
     ELSE LET fh == fileno_to_fatfs(stream.m, fd) IN
     IF fh.r = NULL THEN Ret(SetErrno(fh.m, EBADF), -1)
     ELSE LET res == f_write(fh.m, fh.r, buf, o.e1) IN
     IF res.r # FR_OK THEN Ret(SetErrno(res.m, fatfs_to_errno(res.r)), -1)
     ELSE Ret(res.m, Len(buf))

\* write storing the bytes at the start of the file, not at the position
write_from_start(m, fd, buf, o) ==
  LET m1 == SetErrno(m, 0)
      stream == fileno_to_stream(m1, fd)
  IN IF stream.r = stdout(stream.m) \/ stream.r = stderr(stream.m)
     THEN tty_write(stream.m, stream.r, buf, o)
     ELSE IF stream.r = stdin(stream.m) THEN Ret(stream.m, -1)
     ELSE LET fh == fileno_to_fatfs(stream.m, fd) IN
     IF fh.r = NULL THEN Ret(SetErrno(fh.m, EBADF), -1)
     ELSE LET res == f_write([fh.m EXCEPT !.mem[fh.r].fptr = 0], fh.r, buf, o.e1) IN
     IF res.r # FR_OK THEN Ret(SetErrno(res.m, fatfs_to_errno(res.r)), -1)
     ELSE Ret(res.m, res.bw)

write(m, fd, buf, o) ==
  LET m1 == SetErrno(m, 0)
      stream == fileno_to_stream(m1, fd)
  IN IF stream.r = stdout(stream.m) \/ stream.r = stderr(stream.m)
     THEN tty_write(stream.m, stream.r, buf, o)
     ELSE IF stream.r = stdin(stream.m) THEN Ret(stream.m, -1)
     ELSE LET fh == fileno_to_fatfs(stream.m, fd) IN
     IF fh.r = NULL THEN Ret(SetErrno(fh.m, EBADF), -1)
     ELSE LET res == f_write(fh.m, fh.r, buf, o.e1) IN
     IF res.r # FR_OK THEN Ret(SetErrno(res.m, fatfs_to_errno(res.r)), -1)
     ELSE Ret(res.m, res.bw)

SEEK_SET == "SEEK_SET"
SEEK_CUR == "SEEK_CUR"
SEEK_END == "SEEK_END"

\* lseek taking SEEK_END from the current position instead of the size
lseek_end_from_position(m, fd, position0, whence, o) ==
  LET m1 == SetErrno(m, 0)
      fh == fileno_to_fatfs(m1, fd)
  IN IF fh.r = NULL THEN Ret(SetErrno(fh.m, EMFILE), -1)
     ELSE IF isatty(fd) THEN Ret(fh.m, -1)
     ELSE LET stream == fileno_to_stream(fh.m, fd)
              m2 == AddFlags(stream.m, stream.r, SUNGET)
              position == IF whence = SEEK_END THEN position0 + f_tell(m2, fh.r)
                          ELSE IF whence = SEEK_CUR THEN position0 + f_tell(m2, fh.r)
                          ELSE position0
              res == f_lseek(m2, fh.r, position, o.e1, o.fill)
          IN IF res.r # FR_OK THEN Ret(SetErrno(res.m, fatfs_to_errno(res.r)), -1)
             ELSE IF position # f_tell(res.m, fh.r) THEN Ret(res.m, -1)
             ELSE Ret(res.m, f_tell(res.m, fh.r))

\* lseek trusting the engine result without comparing the position
lseek_unchecked(m, fd, position0, whence, o) ==
  LET m1 == SetErrno(m, 0)
      fh == fileno_to_fatfs(m1, fd)
  IN IF fh.r = NULL THEN Ret(SetErrno(fh.m, EMFILE), -1)
     ELSE IF isatty(fd) THEN Ret(fh.m, -1)
     ELSE LET stream == fileno_to_stream(fh.m, fd)
              m2 == AddFlags(stream.m, stream.r, SUNGET)
              position == IF whence = SEEK_END THEN position0 + f_size(m2, fh.r)
                          ELSE IF whence = SEEK_CUR THEN position0 + f_tell(m2, fh.r)
                          ELSE position0
              res == f_lseek(m2, fh.r, position, o.e1, o.fill)
          IN IF res.r # FR_OK THEN Ret(SetErrno(res.m, fatfs_to_errno(res.r)), -1)
             ELSE Ret(res.m, f_tell(res.m, fh.r))

lseek(m, fd, position0, whence, o) ==
  LET m1 == SetErrno(m, 0)
      fh == fileno_to_fatfs(m1, fd)
  IN IF fh.r = NULL THEN Ret(SetErrno(fh.m, EMFILE), -1)
     ELSE IF isatty(fd) THEN Ret(fh.m, -1)
     ELSE LET stream == fileno_to_stream(fh.m, fd)
              m2 == AddFlags(stream.m, stream.r, SUNGET)
              position == IF whence = SEEK_END THEN position0 + f_size(m2, fh.r)
                          ELSE IF whence = SEEK_CUR THEN position0 + f_tell(m2, fh.r)
                          ELSE position0
              res == f_lseek(m2, fh.r, position, o.e1, o.fill)
          IN IF res.r # FR_OK THEN Ret(SetErrno(res.m, fatfs_to_errno(res.r)), -1)
             ELSE IF position # f_tell(res.m, fh.r) THEN Ret(res.m, -1)
             ELSE Ret(res.m, f_tell(res.m, fh.r))

fseek(m, stream, offset, whence, o) ==
  LET fn == fileno(m, stream) IN
  IF fn.r < 0 THEN Ret(fn.m, -1)
  ELSE LET ret0 == lseek(fn.m, fn.r, offset, whence, o) IN
       IF ret0.r = -1 THEN Ret(ret0.m, -1)
       ELSE Ret(ret0.m, 0)

ftell(m, stream) ==
  LET m1 == SetErrno(m, 0)
      fn == fileno(m1, stream)
  IN IF isatty(fn.r) THEN Ret(fn.m, -1)
     ELSE LET fh == fileno_to_fatfs(fn.m, fn.r) IN
          IF fh.r = NULL THEN Ret(SetErrno(fh.m, EBADF), -1)
          ELSE Ret(fh.m, f_tell(fh.m, fh.r))

\* ftruncate going on to truncate whatever the seek reported
ftruncate_ignores_seek(m, fd, length, o) ==
  LET m1 == SetErrno(m, 0) IN
  IF isatty(fd) THEN Ret(m1, -1)
  ELSE LET fh == fileno_to_fatfs(m1, fd) IN
  IF fh.r = NULL THEN Ret(fh.m, -1)
  ELSE LET sk == f_lseek(fh.m, fh.r, length, o.e1, o.fill) IN
  LET tr == f_truncate(sk.m, fh.r, o.e2) IN
  IF tr.r # FR_OK THEN Ret(SetErrno(tr.m, fatfs_to_errno(tr.r)), -1)
  ELSE Ret(tr.m, 0)

ftruncate(m, fd, length, o) ==
  LET m1 == SetErrno(m, 0) IN
  IF isatty(fd) THEN Ret(m1, -1)
  ELSE LET fh == fileno_to_fatfs(m1, fd) IN
  IF fh.r = NULL THEN Ret(fh.m, -1)
  ELSE LET sk == f_lseek(fh.m, fh.r, length, o.e1, o.fill) IN
  IF sk.r # FR_OK THEN Ret(SetErrno(sk.m, fatfs_to_errno(sk.r)), -1)
  ELSE LET tr == f_truncate(sk.m, fh.r, o.e2) IN
  IF tr.r # FR_OK THEN Ret(SetErrno(tr.m, fatfs_to_errno(tr.r)), -1)
  ELSE Ret(tr.m, 0)

syncfs(m, fd, o) ==
  LET m1 == SetErrno(m, 0) IN
  IF isatty(fd) THEN Ret(SetErrno(m1, EBADF), -1)
  ELSE LET stream == fileno_to_stream(m1, fd) IN
  IF stream.r = NULL /\ o.trap
  THEN \* stream->flags |= __SUNGET through a null pointer
       Ret([stream.m EXCEPT !.fault = TRUE], 0)
  ELSE LET m2 == IF stream.r = NULL THEN stream.m
                 ELSE AddFlags(stream.m, stream.r, SUNGET)
           fh == fileno_to_fatfs(m2, fd)
       IN IF fh.r = NULL THEN Ret(SetErrno(fh.m, EBADF), -1)
          ELSE LET res == f_sync(fh.m, fh.r, o.e1) IN
               IF res.r # FR_OK THEN Ret(SetErrno(res.m, fatfs_to_errno(res.r)), -1)
               ELSE Ret(res.m, 0)

\* sync: syncfs on every handle past the console that has a file object
RECURSIVE sync_from(_, _, _)
sync_slot(fh, i, o) ==
  IF fh.r = NULL THEN sync_from(fh.m, i + 1, o)
  ELSE sync_from(syncfs(fh.m, i, o).m, i + 1, o)

sync_from(m, i, o) ==
  IF i >= MAX_FILES THEN m
  ELSE IF isatty(i) THEN sync_from(m, i + 1, o)
  ELSE sync_slot(fileno_to_fatfs(m, i), i, o)

sync(m, o) == Ret(sync_from(m, 0, o), 0)

\* FIL fh, the local of truncate: a cell at the top of the free memory
truncate_frame(m) ==
  CHOOSE a \in {x \in Addr : m.mem[x].kind = "free"} :
    \A y \in {x \in Addr : m.mem[x].kind = "free"} : a >= y

\* truncate returns r: its frame is gone; fil is the engine file object as
\* the call left it
truncate_return(m, fh, r) ==
  [m |-> [m EXCEPT !.mem[fh] = FreeCell], r |-> r, fil |-> m.mem[fh]]

truncate_at(m, fh, path, length, o) ==
  LET op == f_open(m, fh, path, FA_OPEN_EXISTING \cup FA_READ \cup FA_WRITE, o.e1) IN
  IF op.r # FR_OK THEN truncate_return(SetErrno(op.m, fatfs_to_errno(op.r)), fh, -1)
  ELSE LET sk == f_lseek(op.m, fh, length, o.e2, o.fill) IN
  IF sk.r # FR_OK THEN truncate_return(SetErrno(sk.m, fatfs_to_errno(sk.r)), fh, -1)
  ELSE LET tr == f_truncate(sk.m, fh, o.e3) IN
  IF tr.r # FR_OK THEN truncate_return(SetErrno(tr.m, fatfs_to_errno(tr.r)), fh, -1)
  ELSE truncate_return(tr.m, fh, 0)

truncate(m, path, length, o) ==
  truncate_at(SetErrno(m, 0), truncate_frame(m), path, length, o)

(***************************************************************************)
(* posix.c: device open.                                                   *)
(***************************************************************************)
\* fdevopen making every device with a get function the new stdin
fdevopen_takes_over(m, put, get, o) ==
  IF put = NOFN /\ get = NOFN THEN Ret(m, NULL)
  ELSE LET a == safecalloc(m, ZeroFILE, o.okStream) IN
  IF a.r = NULL THEN Ret(a.m, NULL)
  ELSE LET s == a.r
           m1 == [a.m EXCEPT !.mem[s].flags = SMALLOC]
           m2 == IF get # NOFN
                 THEN [m1 EXCEPT !.mem[s].get = get,
                                 !.mem[s].flags = @ \cup SRD,
                                 !.iob[0] = s]
                 ELSE m1
           m3 == IF put # NOFN
                 THEN [m2 EXCEPT !.mem[s].put = put,
                                 !.mem[s].flags = @ \cup SWR,
                                 !.iob[1] = IF @ = NULL THEN s ELSE @,
                                 !.iob[2] = IF @ = NULL THEN s ELSE @]
                 ELSE m2
       IN Ret(m3, s)

fdevopen(m, put, get, o) ==
  IF put = NOFN /\ get = NOFN THEN Ret(m, NULL)
  ELSE LET a == safecalloc(m, ZeroFILE, o.okStream) IN
  IF a.r = NULL THEN Ret(a.m, NULL)
  ELSE LET s == a.r
           m1 == [a.m EXCEPT !.mem[s].flags = SMALLOC]
           m2 == IF get # NOFN
                 THEN [m1 EXCEPT !.mem[s].get = get,
                                 !.mem[s].flags = @ \cup SRD,
                                 !.iob[0] = IF @ = NULL THEN s ELSE @]
                 ELSE m1
           m3 == IF put # NOFN
                 THEN [m2 EXCEPT !.mem[s].put = put,
                                 !.mem[s].flags = @ \cup SWR,
                                 !.iob[1] = IF @ = NULL THEN s ELSE @,
                                 !.iob[2] = IF @ = NULL THEN s ELSE @]
                 ELSE m2
       IN Ret(m3, s)

(***************************************************************************)
(* The state machine: one action per entry point.  A call runs to          *)
(* completion; after a trap the program has stopped.                       *)
(***************************************************************************)
RECURSIVE SeqsOf(_, _)
\* the sequences of length n over S
SeqsOf(S, n) ==
  IF n = 0 THEN {<<>>}
  ELSE {<<x>> \o t : x \in S, t \in SeqsOf(S, n - 1)}

SeqsUpTo(S, n) == UNION {SeqsOf(S, k) : k \in 0 .. n}

\* the mode strings and flags the actions call fopen and open with: one
\* string of each kind, and flag sets no mode string gives
FopenModes == {"r", "r+", "w", "w+", "a", "a+", "x"}
OpenFlags == {O_RDONLY, O_RDWR \cup O_CREAT, O_WRONLY \cup O_CREAT \cup O_APPEND, MinusOne}

\* Oracles for the engine primitives of one call: all succeed, or the i-th
\* is the first to fail (a caller consults no later one, except open, which
\* closes the file after a failed append seek and ignores the result).
Engine1 == {[NoOracle EXCEPT !.e1 = r] : r \in EngineResults}
Engine2 == Engine1 \cup {[NoOracle EXCEPT !.e2 = r] : r \in EngineFailures}
OpenOracles(flags) ==
  Engine1 \cup {[NoOracle EXCEPT !.okStream = FALSE], [NoOracle EXCEPT !.okFh = FALSE]}
          \cup (IF flags \cap O_APPEND # {}
                THEN {[NoOracle EXCEPT !.e2 = r] : r \in EngineFailures}
                     \cup {[NoOracle EXCEPT !.e2 = FR_DISK_ERR, !.e3 = FR_DISK_ERR]}
                ELSE {})

\* the handles that resolve to no stream: out of range, or a free slot
Unbound == {fd \in Fds : fd < 0 \/ fd >= MAX_FILES \/ iob[fd] = NULL}
\* the non-reserved handles in use
FileHandles == {fd \in 3 .. MAX_FILES - 1 : iob[fd] # NULL}

Step(res, c) ==
  /\ ~fault
  /\ iob' = res.m.iob
  /\ mem' = res.m.mem
  /\ disk' = res.m.disk
  /\ errno' = res.m.errno
  /\ elog' = res.m.elog
  /\ fault' = res.m.fault
  /\ ret' = IF res.m.fault THEN <<>> ELSE <<res.r>>
  /\ call' = c

\* The table is empty at start; the volume holds the file or not.
Init ==
  /\ iob = [i \in 0 .. MAX_FILES - 1 |-> NULL]
  /\ mem = [a \in Addr |-> FreeCell]
  /\ disk \in [Paths -> {NoFile} \cup {[exists |-> TRUE, data |-> [i \in 1 .. n |-> 97]] :
                                       n \in 0 .. MaxInitLen}]
  /\ errno = 0
  /\ elog = <<>>
  /\ ret = <<>>
  /\ call = [fn |-> "none"]
  /\ fault = FALSE

\* the stream records fdevopen has allocated
Devices == {a \in Addr : mem[a].kind = "FILE" /\ SMALLOC \subseteq mem[a].flags}

\* The console devices are registered at startup, before any file is opened.
Fdevopen ==
  \E put \in {NOFN, DEV_PUTC}, get \in {NOFN, DEV_GETC}, ok \in BOOLEAN :
    /\ FileHandles = {}
    /\ Cardinality(Devices) < MaxDevices
    /\ Step(fdevopen(Machine, put, get, [NoOracle EXCEPT !.okStream = ok]),
            [fn |-> "fdevopen"])

Open ==
  \E path \in Paths, flags \in OpenFlags :
    \E o \in OpenOracles(flags) :
      Step(open(Machine, path, flags, o), [fn |-> "open"])

Fopen ==
  \E path \in Paths, mode \in FopenModes :
    \E o \in OpenOracles(posix_fopen_modes_to_open(mode)) :
      Step(fopen(Machine, path, mode, o), [fn |-> "fopen", mode |-> mode])

Close ==
  \E fd \in Fds, o \in Engine1 :
    Step(close(Machine, fd, o), [fn |-> "close", fd |-> fd])

\* fclose is given a stream of the table, a null pointer, or a pointer to a
\* stream that was closed (its cell is free or has been allocated again)
Fclose ==
  \E stream \in {NULL} \cup Addr, o \in Engine1 :
    /\ stream # NULL => mem[stream].kind # "FIL"
    /\ Step(fclose(Machine, stream, o), [fn |-> "fclose"])

\* read, write, lseek, ftruncate and syncfs on a handle that resolves to no
\* stream
Read ==
  \E fd \in Unbound, count \in 0 .. MaxCount, trap \in BOOLEAN :
    Step(read(Machine, fd, count, [NoOracle EXCEPT !.trap = trap]),
         [fn |-> "read"])

Write ==
  \E fd \in Unbound, buf \in SeqsUpTo(Bytes, MaxCount) :
    Step(write(Machine, fd, buf, NoOracle), [fn |-> "write"])

Lseek ==
  \E fd \in Unbound, position \in 0 .. 1, whence \in {SEEK_SET, SEEK_CUR, SEEK_END} :
    Step(lseek(Machine, fd, position, whence, NoOracle), [fn |-> "lseek"])

Ftruncate ==
  \E fd \in Unbound, length \in 0 .. DiskCapacity :
    Step(ftruncate(Machine, fd, length, NoOracle), [fn |-> "ftruncate"])

Syncfs ==
  \E fd \in Unbound, trap \in BOOLEAN :
    Step(syncfs(Machine, fd, [NoOracle EXCEPT !.trap = trap]), [fn |-> "syncfs"])

Next ==
  \/ Fdevopen
  \/ Open
  \/ Fopen
  \/ Close
  \/ Fclose
  \/ Read
  \/ Write
  \/ Lseek
  \/ Ftruncate
  \/ Syncfs

Spec == Init /\ [][Next]_vars

(***************************************************************************)
(* The state machine of file I/O: from the same initial states, files are  *)
(* opened, written, read, repositioned and closed.  The last call is       *)
(* recorded with its arguments and, for read, the bytes it delivered.      *)
(***************************************************************************)
\* number of files open at a time
MaxOpen == 1
\* the bytes written: a letter and a carriage return
IOBytes == {97, CR}
\* the flags files are opened with: read-only, read-write on an existing
\* file, what mode w gives, and create with append for reading and writing
IOFlags ==
  {O_RDONLY, O_RDWR, O_WRONLY \cup O_CREAT \cup O_TRUNC, O_RDWR \cup O_CREAT \cup O_APPEND}

OpenIO ==
  \E path \in Paths, flags \in IOFlags :
    /\ Cardinality(FileHandles) < MaxOpen
    /\ Step(open(Machine, path, flags, NoOracle), [fn |-> "open", flags |-> flags])

CloseIO ==
  \E fd \in FileHandles :
    Step(close(Machine, fd, NoOracle), [fn |-> "close", fd |-> fd])

WriteIO ==
  \E fd \in FileHandles, buf \in SeqsUpTo(IOBytes, DiskCapacity), o \in Engine1 :
    Step(write(Machine, fd, buf, o), [fn |-> "write", fd |-> fd, count |-> Len(buf)])

\* the record of a read call: its arguments and the bytes delivered
StepRead(res, fd, count) ==
  Step(res, [fn |-> "read", fd |-> fd, count |-> count, out |-> res.buf])

ReadIO ==
  \E fd \in FileHandles, count \in 0 .. DiskCapacity, o \in Engine1 :
    StepRead(read(Machine, fd, count, o), fd, count)

\* the engine fails the seek, or succeeds; the bytes it leaves in a gap past
\* the old end of the file are the letter a or the letter b
SeekOracles == Engine1 \cup {[NoOracle EXCEPT !.fill = 98]}

LseekIO ==
  \E fd \in FileHandles, position \in -1 .. DiskCapacity + 1,
     whence \in {SEEK_SET, SEEK_CUR, SEEK_END}, o \in SeekOracles :
    Step(lseek(Machine, fd, position, whence, o),
         [fn |-> "lseek", fd |-> fd, position |-> position, whence |-> whence])

FseekIO ==
  \E fd \in FileHandles, offset \in {0, DiskCapacity + 1} :
    Step(fseek(Machine, iob[fd], offset, SEEK_SET, NoOracle),
         [fn |-> "fseek", fd |-> fd, offset |-> offset])

FtruncateIO ==
  \E fd \in FileHandles, length \in 0 .. DiskCapacity, o \in Engine2 :
    Step(ftruncate(Machine, fd, length, o),
         [fn |-> "ftruncate", fd |-> fd, length |-> length])

\* the engine's answers to the open, the seek and the truncate of truncate
TruncateOracles ==
  {NoOracle, [NoOracle EXCEPT !.e1 = FR_DISK_ERR], [NoOracle EXCEPT !.e2 = FR_DISK_ERR],
   [NoOracle EXCEPT !.e3 = FR_DISK_ERR]}

TruncateIO ==
  \E path \in Paths, length \in 0 .. DiskCapacity, o \in TruncateOracles :
    Step(truncate(Machine, path, length, o),
         [fn |-> "truncate", path |-> path, length |-> length])

NextIO ==
  \/ OpenIO
  \/ CloseIO
  \/ WriteIO
  \/ ReadIO
  \/ LseekIO
  \/ FseekIO
  \/ FtruncateIO
  \/ TruncateIO

SpecIO == Init /\ [][NextIO]_vars

(***************************************************************************)
(* The state machine of character I/O: the console is registered, a file   *)
(* is opened, and characters are read, pushed back and skipped over on     *)
(* the streams of the table.  A run works on the console or on a file.     *)
(***************************************************************************)
\* largest logical read count a stream is taken to
MaxReads == 2
\* the streams in the table
TableStreams == {iob[fd] : fd \in {i \in 0 .. MAX_FILES - 1 : iob[i] # NULL}}
\* what the console device hands to fgetc: a letter, end of input, an error
DevInputs == {<<97>>, <<FDEV_EOF>>, <<FDEV_ERR>>}
\* the characters handed to ungetc
UngetChars == {97, EOF}

FdevopenC ==
  \E put \in {NOFN, DEV_PUTC}, get \in {NOFN, DEV_GETC} :
    /\ FileHandles = {}
    /\ Cardinality(Devices) < MaxDevices
    /\ Step(fdevopen(Machine, put, get, NoOracle), [fn |-> "fdevopen"])

OpenC ==
  \E path \in Paths, flags \in {O_RDONLY, O_RDWR} :
    /\ Devices = {}
    /\ Cardinality(FileHandles) < MaxOpen
    /\ Step(open(Machine, path, flags, NoOracle), [fn |-> "open", flags |-> flags])

\* the call record keeps the stream, whether a pushback was pending, the
\* logical read count and the flags before the call
FgetcC ==
  \E stream \in TableStreams, dev \in DevInputs :
    /\ mem[stream].len < MaxReads
    /\ Step(fgetc(Machine, stream, [NoOracle EXCEPT !.dev = dev]),
            [fn |-> "fgetc", stream |-> stream, len |-> mem[stream].len,
             pending |-> SUNGET \subseteq mem[stream].flags])

UngetcC ==
  \E stream \in TableStreams, c \in UngetChars :
    Step(ungetc(Machine, c, stream),
         [fn |-> "ungetc", stream |-> stream, c |-> c, len |-> mem[stream].len,
          flags |-> mem[stream].flags])

ReadC ==
  \E fd \in {0} \cup FileHandles, dev \in DevInputs :
    /\ iob[fd] # NULL
    /\ mem[iob[fd]].len < MaxReads
    /\ Step(read(Machine, fd, 1, [NoOracle EXCEPT !.dev = dev]),
            [fn |-> "read", fd |-> fd, pending |-> SUNGET \subseteq mem[iob[fd]].flags])

LseekC ==
  \E fd \in FileHandles, position \in 0 .. 1 :
    Step(lseek(Machine, fd, position, SEEK_SET, NoOracle),
         [fn |-> "lseek", fd |-> fd, pending |-> SUNGET \subseteq mem[iob[fd]].flags])

SyncfsC ==
  \E fd \in FileHandles, o \in Engine1 :
    Step(syncfs(Machine, fd, o),
         [fn |-> "syncfs", fd |-> fd, pending |-> SUNGET \subseteq mem[iob[fd]].flags])

SyncC ==
  /\ FileHandles # {}
  /\ Step(sync(Machine, NoOracle), [fn |-> "sync"])

\* fputc of a letter; a console put function hands the letter back
FputcC ==
  \E stream \in TableStreams :
    /\ mem[stream].len < MaxReads
    /\ Step(fputc(Machine, 97, stream, [NoOracle EXCEPT !.dev = <<97>>]),
            [fn |-> "fputc", stream |-> stream, flags |-> mem[stream].flags])

\* lines ending in a carriage return, in a carriage return and a line feed,
\* and a carriage return before a letter
LineBufs == {<<CR>>, <<CR, LF>>, <<CR, 97>>}

WriteC ==
  \E fd \in FileHandles, buf \in LineBufs :
    Step(write(Machine, fd, buf, NoOracle), [fn |-> "write", fd |-> fd])

\* the engine closes the file, or answers with a code its table does not list
CloseC ==
  \E fd \in FileHandles, r \in {FR_OK, FR_UNLISTED} :
    Step(close(Machine, fd, [NoOracle EXCEPT !.e1 = r]), [fn |-> "close", fd |-> fd])

NextC ==
  \/ FdevopenC
  \/ OpenC
  \/ FgetcC
  \/ UngetcC
  \/ ReadC
  \/ LseekC
  \/ SyncfsC
  \/ SyncC
  \/ WriteC
  \/ CloseC
  \/ FputcC

SpecChar == Init /\ [][NextC]_vars

(***************************************************************************)
(* Console registration: several devices handed to fdevopen one after the  *)
(* other, and close tried on the console handles.                          *)
(***************************************************************************)
MaxConsoles == 2

\* the call record keeps the functions handed over and the console streams
\* before the call
FdevopenD ==
  \E put \in {NOFN, DEV_PUTC}, get \in {NOFN, DEV_GETC}, ok \in BOOLEAN :
    /\ Cardinality(Devices) < MaxConsoles
    /\ Step(fdevopen(Machine, put, get, [NoOracle EXCEPT !.okStream = ok]),
            [fn |-> "fdevopen", put |-> put, get |-> get,
             before |-> <<iob[0], iob[1], iob[2]>>])

CloseD ==
  \E fd \in 0 .. 2 :
    Step(close(Machine, fd, NoOracle), [fn |-> "close", fd |-> fd])

MaxLine == 3
\* what the console hands to fgets: letters, backspaces, line feeds and end
\* of input, one for each round of the loop
LineInputs == [1 .. MaxLine -> {97, 98, BS, LF, FDEV_EOF}]

\* the lines typed at the console: a corrected letter, three letters, a
\* backspace on an empty line, and end of input
ConsoleLines == {<<97, BS, 98>>, <<97, 98, 97>>, <<BS, 97, LF>>, <<FDEV_EOF, 97, 97>>}

\* the record of a fgets call: its arguments and the bytes written to str
StepFgets(res, stream, size) ==
  Step(res, [fn |-> "fgets", stream |-> stream, size |-> size, str |-> res.str])

FgetsD ==
  \E stream \in TableStreams, size \in 0 .. MaxLine, dev \in ConsoleLines :
    /\ mem[stream].len = 0
    /\ StepFgets(fgets(Machine, size, stream,
                       [NoOracle EXCEPT !.dev = dev \o [i \in 1 .. MaxLine |-> FDEV_EOF]]),
                 stream, size)

NextD ==
  \/ FdevopenD
  \/ CloseD
  \/ FgetsD

SpecDev == Init /\ [][NextD]_vars

(***************************************************************************)
(* Properties.  A property about one call is stated over every reachable   *)
(* state of the table: whatever the arguments and whatever the engine and  *)
(* the allocator answer, the call made in that state ends as stated.       *)
(***************************************************************************)
\* every FatFs result code, and one the translation table does not list
FResults == FR_OK .. FR_UNLISTED
\* every int of open flags over the bits open looks at, and -1
FlagWords ==
  (SUBSET (O_ACCMODE \cup O_CREAT \cup O_TRUNC \cup O_APPEND)) \cup {MinusOne}
\* the mode strings that are not canonical
OtherModes == ModeStrings \ CanonicalModes

TableFull == FileHandles = 3 .. MAX_FILES - 1
\* every primitive the call invoked reported success
EngineOk(log) == \A i \in 1 .. Len(log) : log[i].res = FR_OK
\* the call asked the engine to open and the engine refused
OpenRejected(log) == log # <<>> /\ log[1].fn = "f_open" /\ log[1].res # FR_OK
\* the lowest free non-reserved slot
LowestFree == CHOOSE fd \in (3 .. MAX_FILES - 1) \ FileHandles :
                \A other \in (3 .. MAX_FILES - 1) \ FileHandles : fd <= other

\* the ways an open can fail: no memory for the stream or for the file
\* object, the engine refusing the open (or the file missing), the append
\* seek failing (with the close that follows succeeding or not)
FailingOpens(flags) ==
  {NoOracle, [NoOracle EXCEPT !.okStream = FALSE], [NoOracle EXCEPT !.okFh = FALSE]}
    \cup {[NoOracle EXCEPT !.e1 = r] : r \in FResults}
    \cup (IF flags \cap O_APPEND # {}
          THEN {[NoOracle EXCEPT !.e2 = r, !.e3 = r3] :
                  r \in FResults, r3 \in {FR_OK, FR_DISK_ERR}}
          ELSE {})

\* C1: after any sequence of open, fopen, close and fclose calls every slot
\* 3..MAX_FILES-1 of __iob is NULL or holds a stream record whose udata is
\* an engine file object, and no stream record or file object is bound to
\* two handles (nor is a file's stream record bound to a console handle).
SlotsHoldOneStreamOneFile ==
  /\ \A fd \in 3 .. MAX_FILES - 1 :
       iob[fd] # NULL =>
         /\ iob[fd] \in Addr
         /\ mem[iob[fd]].kind = "FILE"
         /\ mem[iob[fd]].udata \in Addr
         /\ mem[mem[iob[fd]].udata].kind = "FIL"
  /\ \A fd1 \in FileHandles, fd2 \in FileHandles :
       fd1 # fd2 => /\ iob[fd1] # iob[fd2]
                    /\ mem[iob[fd1]].udata # mem[iob[fd2]].udata
  /\ \A fd \in FileHandles, tty \in 0 .. 2 : iob[tty] # iob[fd]

\* a close has emptied slot 3 while handle 4 stays open
ClosedBelowOpenHandle ==
  /\ call.fn = "close"
  /\ ret = <<0>>
  /\ iob[3] = NULL
  /\ iob[4] # NULL

\* C2: a successful open returns the lowest free slot of 3..MAX_FILES-1,
\* never 0, 1 or 2, and returns 3 when no file handle is in use.
OpenReturnsLowestFreeSlot ==
  \A path \in Paths, flags \in FlagWords :
    \A o \in {NoOracle, [NoOracle EXCEPT !.e1 = FR_DISK_ERR],
              [NoOracle EXCEPT !.okFh = FALSE]} :
      LET res == open(Machine, path, flags, o) IN
      res.r # -1 =>
        /\ res.r \in 3 .. MAX_FILES - 1
        /\ ~TableFull
        /\ res.r = LowestFree
        /\ FileHandles = {} => res.r = 3

\* open has returned 3 while the higher handle 4 was in use
OpenReusedLowSlot ==
  /\ call.fn = "open"
  /\ ret = <<3>>
  /\ iob[4] # NULL

\* C3: with the engine and the allocator succeeding, open (and fopen with
\* any canonical mode) fails if and only if every slot 3..MAX_FILES-1 is in
\* use; on a full table, closing any one handle makes the next open succeed
\* with that handle; and fopen followed by fclose gives back the slot and
\* the memory, so open/close cycles never reduce what can be opened.
OpenFailsOnlyWhenTableFull ==
  \A path \in Paths :
    /\ \A flags \in FlagWords :
         LET res == open(Machine, path, flags, NoOracle) IN
         EngineOk(res.m.elog) => (res.r = -1 <=> TableFull)
    /\ \A mode \in CanonicalModes :
         LET f == fopen(Machine, path, mode, NoOracle) IN
         /\ EngineOk(f.m.elog) => (f.r = NULL <=> TableFull)
         /\ f.r # NULL =>
              LET c == fclose(f.m, f.r, NoOracle) IN
              c.r = 0 /\ c.m.iob = iob /\ c.m.mem = mem
    /\ TableFull =>
         \A fd \in FileHandles, flags \in FlagWords :
           LET c == close(Machine, fd, NoOracle)
               res == open(c.m, path, flags, NoOracle)
           IN EngineOk(res.m.elog) => res.r = fd

\* fopen has failed on a full table without reaching the engine
FopenRefusedOnFullTable ==
  /\ call.fn = "fopen"
  /\ ret = <<NULL>>
  /\ TableFull
  /\ elog = <<>>

\* C4: open called while every non-reserved slot is in use returns -1 and
\* leaves the too-many-open-files condition in errno.
FullTableReportsTooManyFiles ==
  TableFull =>
    \A path \in Paths, flags \in FlagWords :
      LET res == open(Machine, path, flags, NoOracle) IN
      res.r = -1 /\ res.m.errno \in {EMFILE, ENFILE}

\* open has failed on a full table and left EBADF in errno
FullTableOpenLeftEBADF ==
  /\ call.fn = "open"
  /\ ret = <<-1>>
  /\ TableFull
  /\ elog = <<>>
  /\ errno = EBADF

\* C5: when open fails, at whatever step, the table after the call is the
\* table before it: no slot is left occupied, every open handle resolves to
\* the same stream record and file object, and what open allocated is freed.
FailedOpenRestoresTable ==
  \A path \in Paths, flags \in OpenFlags \cup {O_WRONLY \cup O_APPEND, O_RDWR \cup O_TRUNC} :
    \A o \in FailingOpens(flags) :
      LET res == open(Machine, path, flags, o) IN
      res.r = -1 =>
        /\ res.m.iob = iob
        /\ \A fd \in FileHandles :
             /\ fileno_to_stream(res.m, fd).r = iob[fd]
             /\ fileno_to_fatfs(res.m, fd).r = mem[iob[fd]].udata
        /\ res.m.mem = mem

\* open has failed in its append seek, after the engine had opened the
\* file, while another handle was open
OpenFailedInAppendSeek ==
  /\ call.fn = "open"
  /\ ret = <<-1>>
  /\ Len(elog) = 3
  /\ elog[2] = [fn |-> "f_lseek", res |-> FR_DISK_ERR]
  /\ FileHandles # {}

\* C6: when the engine rejects the open with result r, open and fopen both
\* fail and errno, when they return, is fatfs_to_errno(r).
RejectedOpenReportsEngineCode ==
  \A path \in Paths, r \in FResults :
    /\ \A flags \in FlagWords :
         LET res == open(Machine, path, flags, [NoOracle EXCEPT !.e1 = r]) IN
         OpenRejected(res.m.elog) =>
           res.r = -1 /\ res.m.errno = fatfs_to_errno(res.m.elog[1].res)
    /\ \A mode \in CanonicalModes :
         LET f == fopen(Machine, path, mode, [NoOracle EXCEPT !.e1 = r]) IN
         OpenRejected(f.m.elog) =>
           f.r = NULL /\ f.m.errno = fatfs_to_errno(f.m.elog[1].res)

\* fopen has returned NULL after the engine refused the open, and errno is
\* EBADF, which translates neither FR_DISK_ERR nor FR_NO_FILE
FopenLostEngineCode ==
  /\ call.fn = "fopen"
  /\ ret = <<NULL>>
  /\ OpenRejected(elog)
  /\ errno = EBADF
  /\ errno # fatfs_to_errno(elog[1].res)

\* C7: close on an open file handle frees the slot whatever the engine
\* answers (the handle no longer resolves, its records are freed, the slot
\* is given out again); it returns 0 when the engine close succeeds and -1
\* with errno the translated engine code when it fails.
CloseAlwaysFreesSlot ==
  \A fd \in FileHandles, r \in FResults :
    LET c == close(Machine, fd, [NoOracle EXCEPT !.e1 = r]) IN
    /\ c.m.elog = <<[fn |-> "f_close", res |-> r]>>
    /\ c.m.iob = [iob EXCEPT ![fd] = NULL]
    /\ fileno_to_stream(c.m, fd).r = NULL
    /\ c.m.mem[iob[fd]] = FreeCell
    /\ c.m.mem[mem[iob[fd]].udata] = FreeCell
    /\ new_file_descriptor(c.m, TRUE, TRUE).r \in 3 .. fd
    /\ r = FR_OK => c.r = 0
    /\ r # FR_OK => c.r = -1 /\ c.m.errno = fatfs_to_errno(r)

\* close has failed in the engine and freed the slot all the same
FailedCloseFreedSlot ==
  /\ call.fn = "close"
  /\ ret = <<-1>>
  /\ elog = <<[fn |-> "f_close", res |-> FR_DISK_ERR]>>
  /\ errno = EIO
  /\ call.fd \in 3 .. MAX_FILES - 1
  /\ iob[call.fd] = NULL

\* C8: close on a handle that is out of range, was never opened or was
\* already closed returns -1 with errno EBADF, invokes no engine primitive
\* and changes neither the table nor any open handle's records (nor the
\* volume); a second such close gives the same result.
CloseOfBadHandleIsEBADF ==
  \A fd \in Unbound, r \in {FR_OK, FR_DISK_ERR} :
    LET c == close(Machine, fd, [NoOracle EXCEPT !.e1 = r])
        again == close(c.m, fd, [NoOracle EXCEPT !.e1 = r])
    IN /\ c.r = -1
       /\ c.m.errno = EBADF
       /\ c.m.elog = <<>>
       /\ c.m.iob = iob
       /\ c.m.mem = mem
       /\ c.m.disk = disk
       /\ again = c

\* close has refused slot 3, closed earlier, while handle 4 stays open
CloseRefusedClosedHandle ==
  /\ call = [fn |-> "close", fd |-> 3]
  /\ ret = <<-1>>
  /\ errno = EBADF
  /\ elog = <<>>
  /\ iob[3] = NULL
  /\ iob[4] # NULL

\* C9: read, write, lseek, close, ftruncate and syncfs called with a handle
\* that is out of range or whose slot is free return their error value -1
\* with errno EBADF and invoke no engine primitive.
BadHandleIsEBADFEverywhere ==
  \A fd \in Unbound :
    LET Fails(res) ==
          /\ ~res.m.fault
          /\ res.r = -1
          /\ res.m.errno = EBADF
          /\ res.m.elog = <<>>
    IN /\ \A count \in 0 .. MaxCount, trap \in BOOLEAN :
            Fails(read(Machine, fd, count, [NoOracle EXCEPT !.trap = trap]))
       /\ \A buf \in SeqsUpTo(Bytes, MaxCount) : Fails(write(Machine, fd, buf, NoOracle))
       /\ \A position \in 0 .. 1, whence \in {SEEK_SET, SEEK_CUR, SEEK_END} :
            Fails(lseek(Machine, fd, position, whence, NoOracle))
       /\ Fails(close(Machine, fd, NoOracle))
       /\ \A length \in 0 .. DiskCapacity : Fails(ftruncate(Machine, fd, length, NoOracle))
       /\ \A trap \in BOOLEAN :
            Fails(syncfs(Machine, fd, [NoOracle EXCEPT !.trap = trap]))

\* lseek has refused a handle with errno EMFILE
LseekLeftEMFILE ==
  /\ call.fn = "lseek"
  /\ ret = <<-1>>
  /\ errno = EMFILE
  /\ elog = <<>>

\* C10: fopen with a mode string that is not canonical returns NULL,
\* allocates no handle and never asks the engine to open, create or
\* truncate a file.
FopenRejectsOtherModes ==
  \A path \in Paths, mode \in OtherModes :
    \A o \in {NoOracle, [NoOracle EXCEPT !.e1 = FR_DISK_ERR]} :
      LET f == fopen(Machine, path, mode, o) IN
      /\ f.r = NULL
      /\ f.m.iob = iob
      /\ \A i \in 1 .. Len(f.m.elog) : f.m.elog[i].fn # "f_open"
      /\ f.m.disk = disk

\* fopen with the mode "x" has returned a stream after the engine opened
\* the file, leaving it empty
FopenOpenedWithOtherMode ==
  /\ call = [fn |-> "fopen", mode |-> "x"]
  /\ ret # <<NULL>>
  /\ elog # <<>>
  /\ elog[1] = [fn |-> "f_open", res |-> FR_OK]
  /\ FileHandles # {}
  /\ \E path \in Paths : disk[path] = [exists |-> TRUE, data |-> <<>>]

\* mode strings given to posix_fopen_modes_to_open: the canonical ones and
\* others (empty, unknown letters, wrong case, wrong order, trailing text)
ModeInputs == ModeStrings \cup {"rw", "R", "br", "+r", "w ", "a++", "wa"}

\* the table of the fopen mode strings
ReferenceFlags(mode) ==
  CASE mode \in {"r", "rb"} -> O_RDONLY
    [] mode \in {"r+", "r+b", "rb+"} -> O_RDWR \cup O_TRUNC
    [] mode \in {"w", "wb"} -> O_WRONLY \cup O_CREAT \cup O_TRUNC
    [] mode \in {"w+", "w+b", "wb+"} -> O_RDWR \cup O_CREAT \cup O_TRUNC
    [] mode \in {"a", "ab"} -> O_WRONLY \cup O_CREAT \cup O_APPEND
    [] mode \in {"a+", "a+b", "ab+"} -> MinusOne
    [] OTHER -> MinusOne

\* C11: posix_fopen_modes_to_open equals the reference table for every
\* input string: the five families of r, r+, w, w+ and a give their flags,
\* a+, a+b and ab+ give -1 (not O_RDWR|O_CREAT|O_APPEND), any other string
\* gives -1.
ModesFollowReferenceTable ==
  /\ \A mode \in ModeInputs : posix_fopen_modes_to_open(mode) = ReferenceFlags(mode)
  /\ \A mode \in {"a+", "a+b", "ab+"} :
       posix_fopen_modes_to_open(mode) # O_RDWR \cup O_CREAT \cup O_APPEND
  /\ call.fn = "fopen" /\ ret # <<NULL>> =>
       \* what open made of the flags of the mode: -1 gives a write-only stream
       (mem[ret[1]].flags = FDEV_SETUP_WRITE <=>
          ReferenceFlags(call.mode) \cap O_ACCMODE \notin {O_RDONLY, O_RDWR})

\* fopen with mode a+ has opened the file and returned a write-only stream,
\* as open does for the flags -1
FopenAppendPlusIsWriteOnly ==
  /\ call = [fn |-> "fopen", mode |-> "a+"]
  /\ ret # <<NULL>>
  /\ mem[ret[1]].flags = FDEV_SETUP_WRITE
  /\ mem[ret[1]].get = NOFN

AppendModes == {"a", "ab", "a+", "a+b", "ab+"}

\* C12: fopen of an existing file with an append mode (a, ab, a+, a+b, ab+)
\* never truncates or re-creates the file: its contents after the open are
\* those before it and the engine position is the prior file size.
AppendOpenKeepsContents ==
  \A path \in Paths, mode \in AppendModes :
    disk[path].exists =>
      LET f == fopen(Machine, path, mode, NoOracle) IN
      f.r # NULL =>
        /\ f.m.disk[path] = disk[path]
        /\ f_tell(f.m, fdev_get_udata(f.m, f.r)) = Len(disk[path].data)

\* fopen with mode a+ has emptied a file that held a byte: the handle opened
\* before it for append still stands at position 1
FopenAppendPlusTruncated ==
  /\ call = [fn |-> "fopen", mode |-> "a+"]
  /\ iob[3] # NULL
  /\ iob[4] # NULL
  /\ ret = <<iob[4]>>
  /\ f_tell(Machine, fdev_get_udata(Machine, iob[3])) = 1
  /\ f_size(Machine, fdev_get_udata(Machine, iob[4])) = 0

\* C13: fopen of an existing file with mode r+, r+b or rb+ yields a
\* read-write stream and truncates the file: the engine-reported size right
\* after the successful open is 0.
ReadPlusOpenTruncates ==
  \A path \in Paths, mode \in {"r+", "r+b", "rb+"} :
    disk[path].exists =>
      LET f == fopen(Machine, path, mode, NoOracle) IN
      f.r # NULL =>
        /\ f.m.mem[f.r].flags = FDEV_SETUP_RW
        /\ f.m.mem[f.r].get = FATFS_GETC
        /\ f.m.mem[f.r].put = FATFS_PUTC
        /\ f_size(f.m, fdev_get_udata(f.m, f.r)) = 0

\* fopen with mode r+ has returned a read-write stream on a file that still
\* holds its byte
FopenReadPlusKeptContents ==
  /\ call = [fn |-> "fopen", mode |-> "r+"]
  /\ ret # <<NULL>>
  /\ mem[ret[1]].flags = FDEV_SETUP_RW
  /\ elog = <<[fn |-> "f_open", res |-> FR_OK]>>
  /\ f_size(Machine, fdev_get_udata(Machine, ret[1])) = 1

\* C14: after a successful open the stream's operations and flags follow
\* the access mode: read-only binds get = fatfs_getc, leaves put unset and
\* sets only the readable flag; write-only binds put = fatfs_putc, leaves
\* get unset and sets only the writable flag; read-write binds both
\* operations and sets both flags.
StreamFollowsAccessMode ==
  \A path \in Paths, flags \in FlagWords :
    LET res == open(Machine, path, flags, NoOracle)
        stream == res.m.mem[res.m.iob[res.r]]
        access == flags \cap O_ACCMODE
    IN res.r # -1 =>
         /\ access = O_RDONLY =>
              stream.get = FATFS_GETC /\ stream.put = NOFN /\ stream.flags = SRD
         /\ access = O_WRONLY =>
              stream.get = NOFN /\ stream.put = FATFS_PUTC /\ stream.flags = SWR
         /\ access = O_RDWR =>
              /\ stream.get = FATFS_GETC
              /\ stream.put = FATFS_PUTC
              /\ stream.flags = SRD \cup SWR

\* open has returned handle 4 with a read-only stream while handle 3 holds
\* a read-write one
OpenBoundReadOnlyAndReadWrite ==
  /\ call.fn = "open"
  /\ ret = <<4>>
  /\ mem[iob[4]].get = FATFS_GETC
  /\ mem[iob[4]].put = NOFN
  /\ mem[iob[4]].flags = SRD
  /\ mem[iob[3]].get = FATFS_GETC
  /\ mem[iob[3]].put = FATFS_PUTC
  /\ mem[iob[3]].flags = SRD \cup SWR

\* flag words with O_APPEND: what mode a gives, append on an existing file for
\* reading and writing, append alone (read-only), and -1
AppendFlags ==
  {O_WRONLY \cup O_CREAT \cup O_APPEND, O_RDWR \cup O_APPEND, O_APPEND, MinusOne}

\* C15: open with the append flag, when it succeeds, returns with the
\* engine position equal to the engine-reported file size; when the engine
\* seek to the end fails, the engine file is closed, the slot is released
\* and open returns -1 with errno the translated result of the seek.
AppendSeeksToEndOrRollsBack ==
  \A path \in Paths, flags \in AppendFlags :
    \A r2 \in FResults, r3 \in {FR_OK, FR_DISK_ERR} :
      LET res == open(Machine, path, flags, [NoOracle EXCEPT !.e2 = r2, !.e3 = r3])
          log == res.m.elog
          fh == fdev_get_udata(res.m, res.m.iob[res.r])
      IN /\ res.r # -1 =>
              /\ log = <<[fn |-> "f_open", res |-> FR_OK], [fn |-> "f_lseek", res |-> FR_OK]>>
              /\ f_tell(res.m, fh) = f_size(res.m, fh)
         /\ Len(log) >= 2 /\ log[2].res # FR_OK =>
              /\ log = <<[fn |-> "f_open", res |-> FR_OK], [fn |-> "f_lseek", res |-> r2],
                         [fn |-> "f_close", res |-> r3]>>
              /\ res.r = -1
              /\ res.m.errno = fatfs_to_errno(r2)
              /\ res.m.iob = iob
              /\ res.m.mem = mem

\* open with the append flag has returned handle 3 standing at the end of
\* a file of one byte
OpenAppendedAtEnd ==
  /\ call.fn = "open"
  /\ ret = <<3>>
  /\ elog = <<[fn |-> "f_open", res |-> FR_OK], [fn |-> "f_lseek", res |-> FR_OK]>>
  /\ f_size(Machine, fdev_get_udata(Machine, iob[3])) = 1
  /\ f_tell(Machine, fdev_get_udata(Machine, iob[3])) = 1

\* the engine file object of an open file handle
FileOf(fd) == fdev_get_udata(Machine, iob[fd])

\* C16: read and write on an open file handle call the engine once; when
\* the engine reports success they return the byte count the engine
\* transferred (the advance of the engine position), also when it is smaller
\* than the count requested, and read delivers those bytes; they return -1,
\* with errno = fatfs_to_errno(result), exactly when the engine result is
\* not success.
BlockIOReturnsEngineCount ==
  \A fd \in FileHandles, r \in FResults :
    LET o == [NoOracle EXCEPT !.e1 = r]
        fh == FileOf(fd)
        data == disk[mem[fh].path].data
        Agrees(res, fn) ==
          LET log == res.m.elog IN
          /\ Len(log) = 1
          /\ log[1].fn = fn
          /\ log[1].res = FR_OK =>
               res.r = f_tell(res.m, fh) - f_tell(Machine, fh)
          /\ log[1].res # FR_OK =>
               res.r = -1 /\ res.m.errno = fatfs_to_errno(log[1].res)
          /\ res.r = -1 => log[1].res # FR_OK
    IN /\ \A count \in 0 .. DiskCapacity + 1 :
            LET res == read(Machine, fd, count, o) IN
            /\ Agrees(res, "f_read")
            /\ res.r # -1 =>
                 res.buf = SubSeq(data, f_tell(Machine, fh) + 1, f_tell(Machine, fh) + res.r)
       /\ \A buf \in SeqsUpTo(IOBytes, DiskCapacity + 1) :
            Agrees(write(Machine, fd, buf, o), "f_write")

\* write was asked for two bytes and has returned 1, the engine reporting
\* success
WriteReturnedShortCount ==
  /\ call.fn = "write"
  /\ call.count = 2
  /\ ret = <<1>>
  /\ elog = <<[fn |-> "f_write", res |-> FR_OK]>>
  /\ errno = 0

\* byte strings with carriage returns and line feeds that fit the volume
RoundTripStrings == SeqsUpTo(Bytes \cup {CR, LF}, DiskCapacity)

\* C17: with a free slot, a working engine and a string s that fits the
\* volume: opening a path with the flags of mode "w", writing s, closing,
\* opening the path with the flags of mode "r" and reading returns exactly
\* the bytes of s (carriage returns and line feeds unchanged), and the write
\* returned the length of s.
WriteThenReadRoundTrips ==
  \A path \in Paths, s \in RoundTripStrings :
    LET o1 == open(Machine, path, posix_fopen_modes_to_open("w"), NoOracle)
        w == write(o1.m, o1.r, s, NoOracle)
        c == close(w.m, o1.r, NoOracle)
        o2 == open(c.m, path, posix_fopen_modes_to_open("r"), NoOracle)
        rd == read(o2.m, o2.r, Len(s), NoOracle)
        all == read(o2.m, o2.r, DiskCapacity + 1, NoOracle)
    IN o1.r # -1 =>
         /\ w.r = Len(s)
         /\ c.r = 0
         /\ o2.r = o1.r
         /\ rd.r = Len(s)
         /\ rd.buf = s
         /\ all.r = Len(s)
         /\ all.buf = s

\* read has returned a carriage return followed by a letter, bytes that only
\* an earlier write can have stored
ReadReturnedWrittenCR ==
  /\ call.fn = "read"
  /\ call.out = <<CR, 97>>
  /\ ret = <<2>>
  /\ disk[mem[FileOf(call.fd)].path].data = <<CR, 97>>

\* the offsets handed to lseek
SeekOffsets == -1 .. DiskCapacity + 1

\* the target lseek computes from its arguments
SeekTarget(fd, offset, whence) ==
  CASE whence = SEEK_SET -> offset
    [] whence = SEEK_CUR -> f_tell(Machine, FileOf(fd)) + offset
    [] whence = SEEK_END -> f_size(Machine, FileOf(fd)) + offset

\* C18: lseek on an open file handle seeks to offset (SEEK_SET), current
\* position + offset (SEEK_CUR) or file size + offset (SEEK_END); whenever
\* it succeeds it returns that target and the engine position equals it, and
\* it succeeds for every target inside the file when the engine does.
LseekReturnsComputedTarget ==
  \A fd \in FileHandles, offset \in SeekOffsets,
     whence \in {SEEK_SET, SEEK_CUR, SEEK_END}, r \in {FR_OK, FR_DISK_ERR} :
    LET target == SeekTarget(fd, offset, whence)
        res == lseek(Machine, fd, offset, whence, [NoOracle EXCEPT !.e1 = r])
    IN /\ res.r # -1 =>
            /\ res.r = target
            /\ f_tell(res.m, FileOf(fd)) = target
            /\ res.m.elog = <<[fn |-> "f_lseek", res |-> FR_OK]>>
       /\ (r = FR_OK /\ target \in 0 .. f_size(Machine, FileOf(fd))) =>
            res.r = target

\* lseek from the end with offset -1 on a two-byte file has returned 1, the
\* position it left
LseekFromEndReturnedTarget ==
  /\ call.fn = "lseek"
  /\ call.whence = SEEK_END
  /\ call.position = -1
  /\ ret = <<1>>
  /\ f_size(Machine, FileOf(call.fd)) = 2
  /\ f_tell(Machine, FileOf(call.fd)) = 1

\* C19: when the engine reports success for the seek but its position
\* afterwards differs from the target requested (the engine clamped the
\* seek), lseek returns -1.
LseekRejectsClampedSeek ==
  \A fd \in FileHandles, offset \in SeekOffsets,
     whence \in {SEEK_SET, SEEK_CUR, SEEK_END} :
    LET target == SeekTarget(fd, offset, whence)
        res == lseek(Machine, fd, offset, whence, NoOracle)
    IN (/\ res.m.elog = <<[fn |-> "f_lseek", res |-> FR_OK]>>
        /\ f_tell(res.m, FileOf(fd)) # target) =>
         res.r = -1

\* lseek past the end of a file opened for reading has returned -1 although
\* the engine reported success; the engine stopped at the end of the file
LseekFailedOnClampedSeek ==
  /\ call.fn = "lseek"
  /\ call.whence = SEEK_SET
  /\ call.position = DiskCapacity + 1
  /\ ret = <<-1>>
  /\ elog = <<[fn |-> "f_lseek", res |-> FR_OK]>>
  /\ f_tell(Machine, FileOf(call.fd)) = f_size(Machine, FileOf(call.fd))
  /\ f_tell(Machine, FileOf(call.fd)) < call.position

\* the pushback-pending flag is clear on the stream and, when the stream is
\* readable and a byte other than a carriage return is stored at the
\* position, fgetc returns that byte
NextCharIsAtPosition(m, fd) ==
  LET stream == iob[fd]
      fh == FileOf(fd)
      data == m.disk[m.mem[fh].path].data
      pos == f_tell(m, fh)
  IN /\ m.mem[stream].flags \cap SUNGET = {}
     /\ (/\ SRD \subseteq m.mem[stream].flags
         /\ pos < Len(data)
         /\ data[pos + 1] # CR) =>
          fgetc(m, stream, NoOracle).r = data[pos + 1]

\* C20: after a successful lseek, and after a successful fseek, on an open
\* file handle the pushback-pending flag of the stream is clear and the next
\* fgetc returns the byte stored at the new position.
SeekDiscardsPushback ==
  \A fd \in FileHandles, offset \in SeekOffsets,
     whence \in {SEEK_SET, SEEK_CUR, SEEK_END} :
    LET ls == lseek(Machine, fd, offset, whence, NoOracle)
        fs == fseek(Machine, iob[fd], offset, whence, NoOracle)
    IN /\ ls.r # -1 => NextCharIsAtPosition(ls.m, fd)
       /\ fs.r = 0 => NextCharIsAtPosition(fs.m, fd)

\* lseek has succeeded on a readable stream with a letter stored at the new
\* position; the pushback-pending flag is set and fgetc returns the empty
\* pushback character 0 instead of the letter
LseekLeftPushbackPending ==
  /\ call.fn = "lseek"
  /\ ret = <<0>>
  /\ SUNGET \subseteq mem[iob[call.fd]].flags
  /\ SRD \subseteq mem[iob[call.fd]].flags
  /\ f_size(Machine, FileOf(call.fd)) > 0
  /\ disk[mem[FileOf(call.fd)].path].data[1] = 97
  /\ fgetc(Machine, iob[call.fd], NoOracle).r = 0

\* the handle is open for writing
Writable(fd) == FA_WRITE \subseteq mem[FileOf(fd)].mode

\* C21: on a writable handle, a successful lseek to a target past the end of
\* the file followed by a successful write extends the file: after close and
\* reopen the size the engine reports is the target plus the number of
\* bytes written.
SeekPastEndThenWriteExtends ==
  \A fd \in FileHandles, target \in 0 .. DiskCapacity,
     buf \in SeqsUpTo(IOBytes, DiskCapacity) :
    LET path == mem[FileOf(fd)].path
        ls == lseek(Machine, fd, target, SEEK_SET, NoOracle)
        w == write(ls.m, fd, buf, NoOracle)
        c == close(w.m, fd, NoOracle)
        o2 == open(c.m, path, O_RDONLY, NoOracle)
    IN (/\ Writable(fd)
        /\ target > f_size(Machine, FileOf(fd))
        /\ ls.r = target
        /\ w.r # -1) =>
         /\ c.r = 0
         /\ o2.r # -1
         /\ f_size(o2.m, fdev_get_udata(o2.m, o2.m.iob[o2.r])) = target + w.r

\* write has stored one byte behind a gap byte that only a seek past the end
\* of the file can have left, and the file is two bytes long
WroteBehindSeekGap ==
  /\ call.fn = "write"
  /\ call.count = 1
  /\ ret = <<1>>
  /\ disk[mem[FileOf(call.fd)].path].data = <<98, 97>>

\* C22: ftruncate on an open file handle first seeks the engine to the
\* length and only after a successful seek asks it to truncate; the step
\* that fails makes it return -1 with errno = fatfs_to_errno of that step's
\* result, the truncate is not issued after a failed seek, and when both
\* succeed it returns 0 and the file ends at the engine position.
FtruncateSeeksThenTruncates ==
  \A fd \in FileHandles, length \in 0 .. DiskCapacity + 1, o \in Engine2 :
    LET res == ftruncate(Machine, fd, length, o)
        log == res.m.elog
    IN /\ Len(log) >= 1
       /\ log[1].fn = "f_lseek"
       /\ log[1].res # FR_OK =>
            /\ Len(log) = 1
            /\ res.r = -1
            /\ res.m.errno = fatfs_to_errno(log[1].res)
       /\ log[1].res = FR_OK =>
            /\ Len(log) = 2
            /\ log[2].fn = "f_truncate"
            /\ log[2].res # FR_OK =>
                 res.r = -1 /\ res.m.errno = fatfs_to_errno(log[2].res)
            /\ log[2].res = FR_OK =>
                 /\ res.r = 0
                 /\ f_size(res.m, FileOf(fd)) = f_tell(res.m, FileOf(fd))
                 /\ length <= DiskCapacity => f_size(res.m, FileOf(fd)) = length

\* ftruncate has returned -1 with EIO after the seek succeeded and the
\* truncate failed with a disk error
FtruncateFailedInTruncate ==
  /\ call.fn = "ftruncate"
  /\ ret = <<-1>>
  /\ elog = <<[fn |-> "f_lseek", res |-> FR_OK], [fn |-> "f_truncate", res |-> FR_DISK_ERR]>>
  /\ errno = EIO

\* the reserved handles
Reserved == {fd \in Fds : isatty(fd)}

\* the call has failed, has asked nothing of the engine and has left the
\* table and the stream records as they were
FailedWithoutEngine(res) ==
  /\ res.r = -1
  /\ res.m.elog = <<>>
  /\ res.m.iob = iob
  /\ res.m.mem = mem
  /\ res.m.disk = disk

\* C23: in every reachable state a reserved handle 0, 1 or 2 is free or
\* bound to a console stream that carries no engine file object, and lseek,
\* ftruncate, ftell and close on a reserved handle fail without calling the
\* engine and without changing the table.
ReservedHandlesStayConsole ==
  \A fd \in Reserved :
    /\ iob[fd] # NULL =>
         /\ mem[iob[fd]].kind = "FILE"
         /\ fdev_get_udata(Machine, iob[fd]) = NULL
         /\ FailedWithoutEngine(ftell(Machine, iob[fd]))
    /\ \A o \in Engine2 :
         /\ FailedWithoutEngine(close(Machine, fd, o))
         /\ \A length \in 0 .. DiskCapacity :
              /\ FailedWithoutEngine(ftruncate(Machine, fd, length, o))
              /\ \A whence \in {SEEK_SET, SEEK_CUR, SEEK_END} :
                   FailedWithoutEngine(lseek(Machine, fd, length, whence, o))

\* close of handle 0 has failed while the console input stream is
\* registered there, and the stream is still in the table
CloseRefusedConsoleHandle ==
  /\ call.fn = "close"
  /\ call.fd = 0
  /\ ret = <<-1>>
  /\ elog = <<>>
  /\ iob[0] # NULL
  /\ SRD \subseteq mem[iob[0]].flags

\* the stream is one of a file: it carries an engine file object
FileBacked(stream) == fdev_get_udata(Machine, stream) # NULL

\* after fgetc has left the machine g1 with the byte g1.r, ungetc of the byte
\* succeeds, the next fgetc returns it again without calling the engine, and
\* the read count, the file position and the volume are as in g1
PushedBackAndReadAgain(g1, stream, o) ==
  LET u == ungetc(g1.m, g1.r, stream)
      g2 == fgetc(u.m, stream, o)
  IN /\ u.r = g1.r
     /\ g2.r = g1.r
     /\ g2.m.elog = <<>>
     /\ g2.m.mem[stream].len = g1.m.mem[stream].len
     /\ g2.m.disk = g1.m.disk
     /\ FileBacked(stream) =>
          f_tell(g2.m, fdev_get_udata(Machine, stream))
            = f_tell(g1.m, fdev_get_udata(Machine, stream))

\* C24: on every readable stream, console or file-backed: after fgetc has
\* returned a byte b, ungetc(b) succeeds and the next fgetc returns b, the
\* logical read count and the file position being the same as after the
\* first read.
PushbackRoundTrips ==
  \A stream \in TableStreams, dev \in DevInputs :
    LET o == [NoOracle EXCEPT !.dev = dev]
        g1 == fgetc(Machine, stream, o)
    IN (SRD \subseteq mem[stream].flags /\ g1.r >= 0) =>
         PushedBackAndReadAgain([m |-> [g1.m EXCEPT !.elog = <<>>], r |-> g1.r], stream, o)

\* ungetc of the letter a has been refused on a readable file stream with
\* no pushback pending, after one byte was read from the file
UngetcRefusedOnFileStream ==
  /\ call.fn = "ungetc"
  /\ call.c = 97
  /\ ret = <<EOF>>
  /\ FileBacked(call.stream)
  /\ SRD \subseteq mem[call.stream].flags
  /\ mem[call.stream].flags \cap SUNGET = {}
  /\ mem[call.stream].len = 1
  /\ f_tell(Machine, fdev_get_udata(Machine, call.stream)) = 1

\* C25: ungetc returns EOF and leaves the stream record unchanged when a
\* pushback is pending, when the stream is not readable or when the byte is
\* EOF; whenever it is accepted it returns the byte, stores it, sets the
\* pending flag, clears the end-of-file flag and takes one off the logical
\* read count, and a second ungetc is then refused, so a stream never holds
\* more than the one pending byte.
UngetcKeepsOnePendingByte ==
  \A stream \in TableStreams, c \in UngetChars \cup {98} :
    LET u == ungetc(Machine, c, stream)
        before == mem[stream]
        after == u.m.mem[stream]
        again == ungetc(u.m, 98, stream)
    IN /\ (\/ SUNGET \subseteq before.flags
           \/ before.flags \cap SRD = {}
           \/ c = EOF) => (u.r = EOF /\ after = before)
       /\ u.r = EOF => u.m.mem = mem
       /\ u.r # EOF =>
            /\ u.r = c
            /\ after = [before EXCEPT !.unget = c,
                                      !.flags = (@ \cup SUNGET) \ SEOF,
                                      !.len = @ - 1]
            /\ again.r = EOF
            /\ again.m.mem = u.m.mem
       /\ u.m.iob = iob
       /\ u.m.disk = disk
       /\ u.m.elog = <<>>

\* ungetc of the letter a has been accepted on the console input stream that
\* had reached end of input: the byte is pending, the end-of-file flag is
\* clear and the read count is one lower
UngetcAcceptedOnConsole ==
  /\ call.fn = "ungetc"
  /\ call.c = 97
  /\ ret = <<97>>
  /\ SEOF \subseteq call.flags
  /\ mem[call.stream].unget = 97
  /\ SUNGET \subseteq mem[call.stream].flags
  /\ mem[call.stream].flags \cap SEOF = {}
  /\ mem[call.stream].len = call.len - 1

\* the reference normalization: a carriage return, with the line feed after
\* it when there is one, becomes one line feed; other bytes stay
RECURSIVE Normalize(_)
Normalize(s) ==
  IF s = <<>> THEN <<>>
  ELSE IF Head(s) # CR THEN <<Head(s)>> \o Normalize(Tail(s))
  ELSE IF Len(s) >= 2 /\ s[2] = LF THEN <<LF>> \o Normalize(SubSeq(s, 3, Len(s)))
  ELSE <<LF>> \o Normalize(Tail(s))

\* C26: for every byte sequence s stored in a file (written, closed and the
\* file opened for reading), the values successive fgetc calls return up to
\* the first EOF are Normalize(s): every CR LF pair and every other CR,
\* also a last one, is one LF and the other bytes come unchanged, in order,
\* none lost or doubled; Normalize of a normalized sequence is the sequence.
\* The same holds for the rest of the file from the position of any
\* readable file stream with no pushback pending.
FgetcNormalizesLineEnds ==
  /\ \A path \in Paths, s \in RoundTripStrings :
       LET o1 == open(Machine, path, posix_fopen_modes_to_open("w"), NoOracle)
           w == write(o1.m, o1.r, s, NoOracle)
           c == close(w.m, o1.r, NoOracle)
           o2 == open(c.m, path, O_RDONLY, NoOracle)
       IN /\ Normalize(Normalize(s)) = Normalize(s)
          /\ o1.r # -1 =>
               /\ o2.r = o1.r
               /\ o2.m.disk[path].data = s
               /\ fgetc_all(o2.m, o2.m.iob[o2.r], DiskCapacity + 1) = Normalize(s)
  /\ \A fd \in FileHandles :
       LET data == disk[mem[FileOf(fd)].path].data
           pos == f_tell(Machine, FileOf(fd))
       IN (/\ SRD \subseteq mem[iob[fd]].flags
           /\ mem[iob[fd]].flags \cap SUNGET = {}) =>
            fgetc_all(Machine, iob[fd], DiskCapacity + 1)
              = Normalize(SubSeq(data, pos + 1, Len(data)))

\* the first fgetc on a file holding a carriage return and a letter has
\* returned a line feed, after reading both bytes and seeking back over the
\* letter
FgetcReturnedLFForBareCR ==
  /\ call.fn = "fgetc"
  /\ ~call.pending
  /\ call.len = 0
  /\ ret = <<LF>>
  /\ FileBacked(call.stream)
  /\ disk[mem[fdev_get_udata(Machine, call.stream)].path].data = <<CR, 97>>
  /\ f_tell(Machine, fdev_get_udata(Machine, call.stream)) = 1
  /\ elog = <<[fn |-> "f_read", res |-> FR_OK], [fn |-> "f_read", res |-> FR_OK],
              [fn |-> "f_lseek", res |-> FR_OK]>>

\* the table of fatfs_to_errno, entry r + 1 for the engine code r
ErrnoTable ==
  <<0, EIO, EPERM, EBUSY, ENOENT, ENOENT, EINVAL, EACCES, EACCES, EINVAL,
    EROFS, ENXIO, ENOSPC, ENXIO, EINVAL, EBUSY, EBUSY, ENOMEM, EMFILE, EINVAL>>

\* C27: fatfs_to_errno is total and equal to its table: success gives 0,
\* disk error EIO, no file and no path ENOENT, write protected EROFS, too
\* many open files EMFILE, and every code without a table entry, below or
\* above the listed ones, gives EBADMSG; close reports an engine failure
\* with that value.
ErrnoFollowsTable ==
  /\ \A r \in -2 .. FR_UNLISTED + 2 :
       fatfs_to_errno(r) = IF r \in 0 .. 19 THEN ErrnoTable[r + 1] ELSE EBADMSG
  /\ fatfs_to_errno(FR_OK) = 0
  /\ fatfs_to_errno(FR_DISK_ERR) = EIO
  /\ fatfs_to_errno(FR_NO_FILE) = ENOENT
  /\ fatfs_to_errno(FR_NO_PATH) = ENOENT
  /\ fatfs_to_errno(FR_WRITE_PROTECTED) = EROFS
  /\ fatfs_to_errno(FR_TOO_MANY_OPEN_FILES) = EMFILE
  /\ \A fd \in FileHandles, r \in 1 .. FR_UNLISTED :
       close(Machine, fd, [NoOracle EXCEPT !.e1 = r]).m.errno
         = IF r \in 0 .. 19 THEN ErrnoTable[r + 1] ELSE EBADMSG

\* close has returned -1 with EBADMSG after the engine answered with a code
\* the table does not list
CloseReportedUnlistedCode ==
  /\ call.fn = "close"
  /\ ret = <<-1>>
  /\ elog = <<[fn |-> "f_close", res |-> FR_UNLISTED]>>
  /\ errno = EBADMSG

\* C28: whenever read, write, lseek or close on an open file handle returns
\* -1, errno is nonzero when the call returns.
FailureSetsErrno ==
  \A fd \in FileHandles, o \in Engine1 :
    /\ \A count \in 0 .. MaxCount :
         read(Machine, fd, count, o).r = -1 => read(Machine, fd, count, o).m.errno # 0
    /\ \A buf \in SeqsUpTo(IOBytes, DiskCapacity) :
         write(Machine, fd, buf, o).r = -1 => write(Machine, fd, buf, o).m.errno # 0
    /\ \A position \in -1 .. DiskCapacity + 1, whence \in {SEEK_SET, SEEK_CUR, SEEK_END} :
         lseek(Machine, fd, position, whence, o).r = -1
           => lseek(Machine, fd, position, whence, o).m.errno # 0
    /\ close(Machine, fd, o).r = -1 => close(Machine, fd, o).m.errno # 0

\* lseek has returned -1 and left errno 0: the engine reported success and
\* stopped short of the requested position
LseekFailedWithErrnoZero ==
  /\ call.fn = "lseek"
  /\ ret = <<-1>>
  /\ errno = 0
  /\ elog = <<[fn |-> "f_lseek", res |-> FR_OK]>>

\* the pushback-pending flag of the stream in the machine m
PendingIn(m, stream) == SUNGET \subseteq m.mem[stream].flags

\* C29: the pushback-pending flag of a stream is set only by a successful
\* ungetc that stored its byte: read, lseek, syncfs, sync and fgetc leave a
\* clear flag clear; therefore fgetc never returns a byte that was neither
\* pushed back nor produced by the stream's get operation (no caller pushes
\* the byte 0 back and no file or device holds it).
PendingOnlyAfterUngetc ==
  /\ \A fd \in {0} \cup FileHandles :
       (iob[fd] # NULL /\ ~PendingIn(Machine, iob[fd])) =>
         /\ \A dev \in DevInputs :
              /\ ~PendingIn(read(Machine, fd, 1, [NoOracle EXCEPT !.dev = dev]).m, iob[fd])
              /\ ~PendingIn(fgetc(Machine, iob[fd], [NoOracle EXCEPT !.dev = dev]).m, iob[fd])
         /\ \A o \in Engine1 :
              /\ ~PendingIn(syncfs(Machine, fd, o).m, iob[fd])
              /\ ~PendingIn(sync(Machine, o).m, iob[fd])
         /\ fd \in FileHandles =>
              \A position \in 0 .. 1 :
                ~PendingIn(lseek(Machine, fd, position, SEEK_SET, NoOracle).m, iob[fd])
         /\ \A c \in UngetChars :
              PendingIn(ungetc(Machine, c, iob[fd]).m, iob[fd]) =>
                /\ ungetc(Machine, c, iob[fd]).r = c
                /\ ungetc(Machine, c, iob[fd]).m.mem[iob[fd]].unget = c
  /\ (call.fn = "fgetc" /\ ret # <<EOF>>) => ret # <<0>>

\* fgetc has returned the byte 0 as a pending pushback although no ungetc
\* stored it and the file holds no such byte
FgetcReturnedByteNeverPushedBack ==
  /\ call.fn = "fgetc"
  /\ call.pending
  /\ ret = <<0>>
  /\ FileBacked(call.stream)
  /\ \A path \in DOMAIN disk : \A i \in 1 .. Len(disk[path].data) : disk[path].data[i] # 0

\* C30: when a pushback byte is pending on a readable stream, fgetc returns
\* that byte, clears the pending flag, adds one to the logical read count,
\* and changes nothing else: it makes no engine call, takes nothing from the
\* device, and leaves the buffer, the file position and the volume alone.
FgetcDrainsPendingByte ==
  \A stream \in TableStreams, dev \in DevInputs :
    (SRD \subseteq mem[stream].flags /\ SUNGET \subseteq mem[stream].flags) =>
      /\ fgetc(Machine, stream, [NoOracle EXCEPT !.dev = dev]).r = mem[stream].unget
      /\ fgetc(Machine, stream, [NoOracle EXCEPT !.dev = dev]).m
           = [Machine EXCEPT !.mem[stream].flags = @ \ SUNGET,
                             !.mem[stream].len = @ + 1]

\* fgetc has returned the byte 97 that ungetc stored on the console stream:
\* the flag is clear again, the read count is one higher, no engine call
FgetcReturnedPushedBackByte ==
  /\ call.fn = "fgetc"
  /\ call.pending
  /\ ~FileBacked(call.stream)
  /\ ret = <<97>>
  /\ mem[call.stream].unget = 97
  /\ SUNGET \cap mem[call.stream].flags = {}
  /\ mem[call.stream].len = call.len + 1
  /\ elog = <<>>

\* what the get operation of the stream returns in the current state
GetResult(stream, o) ==
  IF mem[stream].get = FATFS_GETC THEN fatfs_getc(Machine, stream, o).r
  ELSE Head(o.dev)

\* the oracles of a get operation: what the device hands over and how the
\* engine answers the read
GetOracles ==
  {[NoOracle EXCEPT !.dev = dev, !.e1 = r] : dev \in DevInputs, r \in EngineResults}

FputcRejectsUnwritableStream ==
  \A stream \in TableStreams, o \in Engine1 :
    mem[stream].flags \cap SWR = {} =>
      /\ fputc(Machine, 97, stream, o).r = EOF
      /\ fputc(Machine, 97, stream, o).m.elog = <<>>

\* fputc on a read-only file stream has called the engine write, and it is
\* the engine that refused
FputcAskedEngineOnReadOnlyStream ==
  /\ call.fn = "fputc"
  /\ call.flags \cap SWR = {}
  /\ ret = <<EOF>>
  /\ elog = <<[fn |-> "f_write", res |-> FR_DENIED]>>

\* the machine with the pushback slot of the stream overwritten
WithPushback(stream, pending, c) ==
  [Machine EXCEPT !.mem[stream].unget = c,
                  !.mem[stream].flags = IF pending THEN @ \cup SUNGET ELSE @ \ SUNGET]

\* the oracles of fatfs_getc: the engine's answers to the two reads and the seek
GetcOracles ==
  {[NoOracle EXCEPT !.e1 = r1, !.e2 = r2, !.e3 = r3] :
     r1 \in {FR_OK, FR_DISK_ERR}, r2 \in {FR_OK, FR_DISK_ERR}, r3 \in {FR_OK, FR_DISK_ERR}}

\* C33: fatfs_getc never reads or changes the pushback-pending flag or the
\* pushback byte of the stream: they are the same after the call, and the
\* result, the engine calls and the file position do not depend on them;
\* a byte looked at after a carriage return is given back only by an engine
\* seek to the position just after the carriage return.
FatfsGetcLeavesPushbackAlone ==
  \A stream \in TableStreams, o \in GetcOracles :
    FileBacked(stream) =>
      LET fh == fdev_get_udata(Machine, stream)
          g == fatfs_getc(Machine, stream, o)
          lookedAhead == /\ Len(g.m.elog) >= 2
                         /\ g.m.elog[1].res = FR_OK
                         /\ g.m.elog[2].res = FR_OK
                         /\ f_tell(Machine, fh) + 2 <= f_size(Machine, fh)
                         /\ disk[mem[fh].path].data[f_tell(Machine, fh) + 2] # LF
      IN /\ g.m.mem[stream].unget = mem[stream].unget
         /\ g.m.mem[stream].flags \cap SUNGET = mem[stream].flags \cap SUNGET
         /\ \A pending \in BOOLEAN, c \in {0, 98} :
              /\ fatfs_getc(WithPushback(stream, pending, c), stream, o).r = g.r
              /\ fatfs_getc(WithPushback(stream, pending, c), stream, o).m.elog = g.m.elog
              /\ fatfs_getc(WithPushback(stream, pending, c), stream, o).m.mem[fh] = g.m.mem[fh]
         /\ lookedAhead =>
              /\ Len(g.m.elog) = 3
              /\ g.m.elog[3].fn = "f_lseek"
              /\ g.m.elog[3].res = FR_OK => f_tell(g.m, fh) = f_tell(Machine, fh) + 1
         /\ ~lookedAhead => \A i \in 1 .. Len(g.m.elog) : g.m.elog[i].fn = "f_read"

\* fgetc on a file has returned a line feed for a carriage return before a
\* letter: two engine reads, then a seek back to just after the carriage
\* return, and the pushback slot untouched
FatfsGetcSeekedBack ==
  /\ call.fn = "fgetc"
  /\ ~call.pending
  /\ FileBacked(call.stream)
  /\ ret = <<LF>>
  /\ elog = <<[fn |-> "f_read", res |-> FR_OK], [fn |-> "f_read", res |-> FR_OK],
             [fn |-> "f_lseek", res |-> FR_OK]>>
  /\ f_tell(Machine, fdev_get_udata(Machine, call.stream)) = 1
  /\ mem[call.stream].flags \cap SUNGET = {}
  /\ mem[call.stream].unget = 0

\* C34: syncfs with a non-reserved handle that is out of range or whose slot
\* is free returns -1 with errno EBADF and touches no stream record: nothing
\* is accessed through a null stream reference and the memory is as before.
SyncfsBadHandleTouchesNoStream ==
  \A fd \in Unbound \ Reserved, trap \in BOOLEAN :
    /\ ~syncfs(Machine, fd, [NoOracle EXCEPT !.trap = trap]).m.fault
    /\ syncfs(Machine, fd, [NoOracle EXCEPT !.trap = trap]).r = -1
    /\ syncfs(Machine, fd, [NoOracle EXCEPT !.trap = trap]).m.errno = EBADF
    /\ syncfs(Machine, fd, [NoOracle EXCEPT !.trap = trap]).m.mem = mem
    /\ syncfs(Machine, fd, [NoOracle EXCEPT !.trap = trap]).m.iob = iob

\* syncfs has written the pending flag through the null stream reference of
\* a handle without a stream, and the access trapped
SyncfsTrappedOnNullStream ==
  /\ call.fn = "syncfs"
  /\ fault
  /\ ret = <<>>

\* C35: across fdevopen calls stdin is the first registered device with a
\* get operation and stdout and stderr are the first with a put operation:
\* a console stream that is unassigned becomes the new device when the call
\* succeeds with the matching operation and stays unassigned otherwise; one
\* that is assigned is never changed; a call with neither operation returns
\* 0 and changes nothing.
ConsoleStreamsAssignedOnce ==
  \A put \in {NOFN, DEV_PUTC}, get \in {NOFN, DEV_GETC}, ok \in BOOLEAN :
    LET res == fdevopen(Machine, put, get, [NoOracle EXCEPT !.okStream = ok])
        Assigned(old, has) == IF old # NULL THEN old
                              ELSE IF has /\ res.r # NULL THEN res.r
                              ELSE NULL
    IN /\ res.m.iob[0] = Assigned(iob[0], get # NOFN)
       /\ res.m.iob[1] = Assigned(iob[1], put # NOFN)
       /\ res.m.iob[2] = Assigned(iob[2], put # NOFN)
       /\ res.r # NULL => mem[res.r].kind = "free"
       /\ (put = NOFN /\ get = NOFN) => (res.r = NULL /\ res.m = Machine)

\* a second device with both operations was registered after a device with
\* a get operation only: stdin is still the first device, stdout and stderr
\* are the second
SecondDeviceBecameStdoutOnly ==
  /\ call.fn = "fdevopen"
  /\ call.get # NOFN
  /\ call.put # NOFN
  /\ ret # <<NULL>>
  /\ call.before[1] # NULL
  /\ iob[0] = call.before[1]
  /\ iob[0] # ret[1]
  /\ iob[1] = ret[1]
  /\ iob[2] = ret[1]

\* the handles whose slot is in use
InUse == {h \in 0 .. MAX_FILES - 1 : iob[h] # NULL}

\* fileno of the stream that fileno_to_stream gives for the handle
HandleOfStreamOf(h) == fileno(Machine, fileno_to_stream(Machine, h).r).r

RECURSIVE Taken(_, _)
Taken(dev, size) ==
  IF size = 0 \/ dev = <<>> \/ Head(dev) \in {LF, FDEV_EOF} THEN <<>>
  ELSE <<Head(dev)>> \o Taken(Tail(dev), size - 1)

\* a line as typed: a backspace removes the character before it, if any
\* a line after one more character: a backspace removes the last one stored
EditWith(line, c) ==
  IF c # BS THEN Append(line, c)
  ELSE IF line = <<>> THEN <<>>
  ELSE SubSeq(line, 1, Len(line) - 1)

RECURSIVE Edited(_)
Edited(s) ==
  IF s = <<>> THEN <<>>
  ELSE EditWith(Edited(SubSeq(s, 1, Len(s) - 1)), s[Len(s)])

\* the string in the buffer: the bytes before the first zero
RECURSIVE CString(_)
CString(buf) ==
  IF buf = <<>> \/ Head(buf) = 0 THEN <<>> ELSE <<Head(buf)>> \o CString(Tail(buf))

\* the console streams that fgetc reads from the device
ReadsDevice(stream) ==
  /\ SRD \subseteq mem[stream].flags
  /\ SUNGET \cap mem[stream].flags = {}
  /\ mem[stream].get = DEV_GETC

\* fgets has stored the line, and no backspace, unless it returned NULL
StoresLine(res, line) ==
  res.r # NULL =>
    /\ CString(res.str) = line
    /\ \A i \in 1 .. Len(res.str) : res.str[i] # BS

\* C37: backspace is handled in fgets and not in fgetc: fgetc returns the
\* byte 8 unchanged, and the string fgets stores is the input with every
\* backspace removing the character stored last, or nothing on an empty
\* line; the string never holds a backspace.
BackspaceEditsLineInFgets ==
  \A stream \in TableStreams :
    ReadsDevice(stream) =>
      /\ fgetc(Machine, stream, [NoOracle EXCEPT !.dev = <<BS>>]).r = BS
      /\ \A size \in 0 .. MaxLine, dev \in LineInputs :
           StoresLine(fgets(Machine, size, stream, [NoOracle EXCEPT !.dev = dev]),
                      Edited(Taken(dev, size)))

\* fgets has read a letter, a backspace and another letter from the console
\* and stored the second letter only
FgetsDroppedCorrectedLetter ==
  /\ call.fn = "fgets"
  /\ call.size = 3
  /\ ret = <<STR>>
  /\ call.str = <<98, 0>>
  /\ mem[call.stream].len = 3

\* C38: fgets(str, size, stream) writes at most size bytes into str, the
\* terminating zero included, whatever the stream delivers.
FgetsWritesAtMostSize ==
  \A stream \in TableStreams :
    ReadsDevice(stream) =>
      \A size \in 0 .. MaxLine, dev \in LineInputs :
        Len(fgets(Machine, size, stream, [NoOracle EXCEPT !.dev = dev]).str) <= size

\* fgets has stored size letters and written the terminating zero behind
\* them, one byte past the size it was given
FgetsWrotePastSize ==
  /\ call.fn = "fgets"
  /\ call.size = 3
  /\ ret = <<STR>>
  /\ call.str = <<97, 98, 97, 0>>

\* the engine was asked to close a file during the call
ClosedByEngine(log) == \E i \in 1 .. Len(log) : log[i].fn = "f_close"

\* C39: truncate(path, length) leaves no engine file object open when it
\* returns: once its engine open has succeeded, on every path (seek
\* failure, truncate failure, success) the file it opened has been closed.
TruncateClosesItsFile ==
  \A path \in Paths, length \in 0 .. DiskCapacity, o \in TruncateOracles :
    (/\ truncate(Machine, path, length, o).m.elog # <<>>
     /\ truncate(Machine, path, length, o).m.elog[1] = [fn |-> "f_open", res |-> FR_OK]) =>
      /\ ClosedByEngine(truncate(Machine, path, length, o).m.elog)
      /\ ~truncate(Machine, path, length, o).fil.isopen

\* truncate has returned 0 after the engine opened, positioned and cut the
\* file, and no engine close was issued
TruncateReturnedWithoutClose ==
  /\ call.fn = "truncate"
  /\ ret = <<0>>
  /\ elog = <<[fn |-> "f_open", res |-> FR_OK], [fn |-> "f_lseek", res |-> FR_OK],
             [fn |-> "f_truncate", res |-> FR_OK]>>
  /\ Len(disk[call.path].data) = call.length

====
